---------------------------- MODULE Spec2Model ----------------------------
(***************************************************************************)
(* Funding-rate aggregator: the two variants of the request handler kept   *)
(* in the repository (api/funding-rates.js, "new": sequential fetch with a *)
(* 20 s race per exchange and a Binance/MEXC comparison table; and the     *)
(* older single-list variant, "old": Promise.all over a generic batched    *)
(* adapter), their exchange adapters and the funding-interval inference.   *)
(*                                                                         *)
(* JavaScript values that may be null/undefined/NaN are tagged records     *)
(* [t |-> "num" | "str" | "null" | "undefined" | "nan", v |-> ...].        *)
(* Strings are TLA+ strings; instants are epoch milliseconds.              *)
(***************************************************************************)
EXTENDS Integers, Sequences, FiniteSets, TLC

(***************************************************************************)
(* JavaScript values                                                       *)
(***************************************************************************)
NULL == [t |-> "null"]
UNDEFINED == [t |-> "undefined"]
NAN == [t |-> "nan"]
N(n) == [t |-> "num", v |-> n]
S(s) == [t |-> "str", v |-> s]

IsNum(x) == x.t = "num"
IsStr(x) == x.t = "str"

\* ToBoolean: null, undefined, NaN, 0 and "" are falsy.
Truthy(x) ==
  CASE x.t = "num" -> x.v # 0
    [] x.t = "str" -> x.v # ""
    [] x.t = "obj" -> TRUE
    [] OTHER -> FALSE

\* a || b
OrElse(a, b) == IF Truthy(a) THEN a ELSE b

Abs(n) == IF n < 0 THEN -n ELSE n

\* Math.round on the rational num/den (den > 0): floor(x + 1/2).
MathRound(num, den) == (2 * num + den) \div (2 * den)

(***************************************************************************)
(* String primitives                                                       *)
(***************************************************************************)
\* String.prototype.indexOf, 1-based; 0 when pat does not occur.
IndexOf(s, pat) ==
  LET hits == {i \in 1..(Len(s) - Len(pat) + 1) : SubSeq(s, i, i + Len(pat) - 1) = pat}
  IN IF hits = {} THEN 0 ELSE CHOOSE i \in hits : \A j \in hits : i <= j

\* String.prototype.includes
Includes(s, pat) == IndexOf(s, pat) # 0

\* String.prototype.startsWith
StartsWith(s, pat) == Len(s) >= Len(pat) /\ SubSeq(s, 1, Len(pat)) = pat

\* String.prototype.replace with a string pattern: the first occurrence only.
Replace(s, pat, rep) ==
  LET i == IndexOf(s, pat)
  IN IF i = 0 THEN s
     ELSE SubSeq(s, 1, i - 1) \o rep \o SubSeq(s, i + Len(pat), Len(s))

\* s.split(sep)[0]
SplitFirst(s, sep) ==
  LET i == IndexOf(s, sep)
  IN IF i = 0 THEN s ELSE SubSeq(s, 1, i - 1)

Lower == "abcdefghijklmnopqrstuvwxyz"
Upper == "ABCDEFGHIJKLMNOPQRSTUVWXYZ"

UpperChar(c) ==
  LET i == IndexOf(Lower, c) IN IF i = 0 THEN c ELSE SubSeq(Upper, i, i)

\* String.prototype.toUpperCase
RECURSIVE ToUpperCase(_)
ToUpperCase(s) ==
  IF Len(s) = 0 THEN s
  ELSE UpperChar(SubSeq(s, 1, 1)) \o ToUpperCase(SubSeq(s, 2, Len(s)))

Digits == "0123456789"

IsDigit(c) == Len(c) = 1 /\ Includes(Digits, c)

DigitVal(c) == IndexOf(Digits, c) - 1

DigitChar(d) == SubSeq(Digits, d + 1, d + 1)

AllDigits(s) == \A i \in 1..Len(s) : IsDigit(SubSeq(s, i, i))

\* The value of a non-empty string of decimal digits.
RECURSIVE ParseDigits(_)
ParseDigits(s) ==
  IF Len(s) = 0 THEN 0
  ELSE 10 * ParseDigits(SubSeq(s, 1, Len(s) - 1)) + DigitVal(SubSeq(s, Len(s), Len(s)))

\* The decimal digits of n >= 0, without padding.
RECURSIVE FormatNat(_)
FormatNat(n) ==
  IF n < 10 THEN DigitChar(n) ELSE FormatNat(n \div 10) \o DigitChar(n % 10)

\* The decimal digits of n >= 0, left-padded with zeros to width w.
RECURSIVE PadZero(_, _)
PadZero(n, w) ==
  LET d == FormatNat(n) IN IF Len(d) >= w THEN d ELSE "0" \o PadZero(n, w - 1)


(***************************************************************************)
(* Numbers as text.  A rate is an integer count of 10^-9 (so 0.01 is       *)
(* 10 000 000); the six decimals of toFixed(6) are the multiples of 1000.  *)
(***************************************************************************)
RateScale == 1000 * 1000 * 1000

\* The number x / 100 written in rate units: Pct(1) is 0.01, Pct(-2) is -0.02.
Pct(x) == x * (RateScale \div 100)

\* Number.prototype.toFixed(6): round the magnitude half up, keep the sign.
ToFixed6(x) ==
  LET m == (Abs(x) + 500) \div 1000
  IN (IF x < 0 THEN "-" ELSE "")
       \o FormatNat(m \div 1000000) \o "." \o PadZero(m % 1000000, 6)

\* The length of the longest prefix of s made of decimal digits.
RECURSIVE DigitPrefixLen(_)
DigitPrefixLen(s) ==
  IF Len(s) = 0 \/ ~IsDigit(SubSeq(s, 1, 1)) THEN 0
  ELSE 1 + DigitPrefixLen(SubSeq(s, 2, Len(s)))

\* s cut or right-padded with zeros to nine digits.
NineDigits(s) ==
  IF Len(s) >= 9 THEN SubSeq(s, 1, 9) ELSE s \o SubSeq("000000000", 1, 9 - Len(s))

\* The fraction digits that open rest, as units of 1e-9.
FractionOf(rest) ==
  IF StartsWith(rest, ".")
  THEN ParseDigits(NineDigits(SubSeq(rest, 2, 1 + DigitPrefixLen(SubSeq(rest, 2, Len(rest))))))
  ELSE 0

\* The number whose integer part is the first k characters of body.
NumericPrefix(body, k) ==
  IF k = 0 THEN NAN
  ELSE N(ParseDigits(SubSeq(body, 1, k)) * RateScale
           + FractionOf(SubSeq(body, k + 1, Len(body))))

UnsignedFloat(body) == NumericPrefix(body, DigitPrefixLen(body))

Negated(f) == IF IsNum(f) THEN N(-f.v) ELSE f

\* parseFloat: the longest numeric prefix (sign, digits, fraction) of the
\* text of v; NaN when there is none (null, undefined, "N/A", "NaN").  A
\* number is its own text.
ParseFloat(v) ==
  IF IsNum(v) THEN v
  ELSE IF ~IsStr(v) THEN NAN
  ELSE IF StartsWith(v.v, "-") THEN Negated(UnsignedFloat(SubSeq(v.v, 2, Len(v.v))))
  ELSE UnsignedFloat(v.v)

\* x || 0
OrZero(f) == IF Truthy(f) THEN f.v ELSE 0

\* parseFloat(x) || 0
ParseFloatOrZero(v) == OrZero(ParseFloat(v))

(***************************************************************************)
(* Instants.  Epoch milliseconds; the model's instants lie in January 1970 *)
(* so that they fit 32-bit integers.                                      *)
(***************************************************************************)
MsPerSecond == 1000
MsPerMinute == 60 * MsPerSecond
MsPerHour == 1000 * 60 * 60
MsPerDay == 24 * MsPerHour

Hours(h) == h * MsPerHour

\* new Date(text).getTime() for "1970-01-DDTHH:MM:SS.mmmZ"; NaN for any other text.
DateParse(v) ==
  IF ~IsStr(v) THEN NAN
  ELSE LET s == v.v
           F(i, j) == SubSeq(s, i, j)
           shape == /\ Len(s) = 24
                    /\ F(1, 8) = "1970-01-"
                    /\ F(11, 11) = "T" /\ F(14, 14) = ":" /\ F(17, 17) = ":"
                    /\ F(20, 20) = "." /\ F(24, 24) = "Z"
                    /\ AllDigits(F(9, 10)) /\ AllDigits(F(12, 13)) /\ AllDigits(F(15, 16))
                    /\ AllDigits(F(18, 19)) /\ AllDigits(F(21, 23))
       IN IF ~shape THEN NAN
          ELSE LET dd == ParseDigits(F(9, 10))
                   hh == ParseDigits(F(12, 13))
                   mi == ParseDigits(F(15, 16))
                   ss == ParseDigits(F(18, 19))
                   ms == ParseDigits(F(21, 23))
               IN IF dd < 1 \/ dd > 31 \/ hh > 23 \/ mi > 59 \/ ss > 59 THEN NAN
                  ELSE N((dd - 1) * MsPerDay + hh * MsPerHour + mi * MsPerMinute
                          + ss * MsPerSecond + ms)

\* new Date(ms).toISOString() for an instant of January 1970.
ToISOString(ms) ==
  "1970-01-" \o PadZero(ms \div MsPerDay + 1, 2)
    \o "T" \o PadZero((ms % MsPerDay) \div MsPerHour, 2)
    \o ":" \o PadZero((ms % MsPerHour) \div MsPerMinute, 2)
    \o ":" \o PadZero((ms % MsPerMinute) \div MsPerSecond, 2)
    \o "." \o PadZero(ms % MsPerSecond, 3) \o "Z"

(***************************************************************************)
(* Interval Calculator and the history lookup                              *)
(***************************************************************************)
calculateFundingInterval(currentTime, nextTime) ==
  IF ~Truthy(currentTime) \/ ~Truthy(nextTime) THEN NULL
  ELSE LET diffMs == nextTime.v - currentTime.v
       IN N(MathRound(diffMs, MsPerHour))

\* What exchange.fetchFundingRateHistory(symbol, undefined, 2) does for one
\* symbol: [kind |-> "throw"], [kind |-> "hang"] (never settles) or
\* [kind |-> "ok", events |-> a sequence of [timestamp |-> instant]].
HistThrow == [kind |-> "throw"]
HistHang == [kind |-> "hang"]
HistOk(ts) == [kind |-> "ok", events |-> [i \in 1..Len(ts) |-> [timestamp |-> ts[i]]]]

\* getFundingIntervalForSymbol, for a history request that settles.
getFundingIntervalForSymbol(hist) ==
  IF hist.kind = "ok" /\ Len(hist.events) >= 2
  THEN calculateFundingInterval(hist.events[1].timestamp, hist.events[2].timestamp)
  ELSE NULL

(***************************************************************************)
(* Method 4: the static classification of the newer Binance adapter        *)
(***************************************************************************)
major8HCoins ==
  {"BTC", "ETH", "BNB", "XRP", "ADA", "SOL", "DOT", "DOGE", "AVAX", "SHIB",
   "MATIC", "LTC", "UNI", "LINK", "TRX", "BCH", "NEAR", "ATOM", "XLM", "HBAR",
   "VET", "FIL", "ETC", "THETA", "ICP", "MANA", "SAND", "AXS", "ALGO", "EGLD",
   "XTZ", "AAVE", "GRT", "KLAY", "FLOW", "FTM", "LRC", "CRV", "SNX", "COMP"}

likely1HCoins ==
  {"FDUSD", "TUSD", "NEIRO", "DOGS", "HMSTR", "CATI", "EIGEN", "SCR", "LUMIA",
   "MEMEFI", "VANA", "VELODROME", "MOVE", "ME", "USUAL", "PENGU", "HYPERLIQUID",
   "ZBT", "DOOD", "MELANIA", "TRUMP", "PNUT", "ACT", "GOAT"}

is1000Coin(baseSymbol) == StartsWith(baseSymbol, "1000")

isNewCoin(symbol, baseSymbol) == Includes(symbol, "-") \/ Len(baseSymbol) > 6

isMemeOrVolatile(baseSymbol) ==
  \/ Includes(baseSymbol, "DOGE") \/ Includes(baseSymbol, "SHIB")
  \/ Includes(baseSymbol, "MEME") \/ Includes(baseSymbol, "PEPE")
  \/ Includes(baseSymbol, "FLOKI") \/ Includes(baseSymbol, "BONK")

smartFallback_LengthIgnored(symbol, baseSymbol) ==
  IF baseSymbol \in likely1HCoins \/ isMemeOrVolatile(baseSymbol) THEN 1
  ELSE IF baseSymbol \in major8HCoins \/ is1000Coin(baseSymbol) THEN 8
  ELSE 4

\* Method 4: the interval by the instrument's name.
smartFallback(symbol, baseSymbol) ==
  IF baseSymbol \in likely1HCoins \/ isMemeOrVolatile(baseSymbol) THEN 1
  ELSE IF baseSymbol \in major8HCoins \/ is1000Coin(baseSymbol) THEN 8
  ELSE IF isNewCoin(symbol, baseSymbol) \/ Len(baseSymbol) > 5
       THEN (IF Len(baseSymbol) >= 7 THEN 2 ELSE 4)
  ELSE 4

\* interval && interval > 0 && interval <= 24
validInterval(interval) == Truthy(interval) /\ interval.v > 0 /\ interval.v <= 24


(***************************************************************************)
(* The exchanges' data: what the network calls of one run answer           *)
(***************************************************************************)
\* One entry of the object exchange.fetchFundingRates() resolves to (ccxt's
\* funding-rate structure, or null), with what the history request for that
\* symbol does.
Funding(rate, ts, next, dt, ndt) ==
  [t |-> "obj", fundingRate |-> rate, fundingTimestamp |-> ts, nextFundingTime |-> next,
   fundingDatetime |-> dt, nextFundingDatetime |-> ndt,
   markPrice |-> N(100), indexPrice |-> N(101)]

BEntry(sym, data, hist) == [symbol |-> sym, data |-> data, hist |-> hist]

\* One item of the data array of MEXC's contract/funding_rate answer.
MItem(sym, rate, cycle, settle) ==
  [symbol |-> sym, fundingRate |-> rate, collectCycle |-> cycle, nextSettleTime |-> settle]

\* One market of exchange.markets with what fetchTicker does for it:
\* [kind |-> "ok", last |-> price], [kind |-> "throw"] or [kind |-> "hang"].
Market(sym, swap, ticker) == [symbol |-> sym, swap |-> swap, ticker |-> ticker]
TickOk(p) == [kind |-> "ok", last |-> N(p)]
TickThrow == [kind |-> "throw"]
TickHang == [kind |-> "hang"]

T0 == Hours(100)
Iso(ms) == S(ToISOString(ms))

\* Raw funding rates as the exchanges report them (fractions): 0.0001 is 0.01 %.
Frac(x) == x * (RateScale \div 10000)

BinanceCatalogue ==
  { \* method 1 gives 8
    BEntry("BTC/USDT:USDT",
           Funding(N(Frac(1)), N(T0), N(T0 + Hours(8)), Iso(T0), Iso(T0 + Hours(8))),
           HistOk(<<N(T0), N(T0 + Hours(1))>>)),
    \* method 1 gives 48 (invalid), method 2 gives 4
    BEntry("ETH/USDT:USDT",
           Funding(N(0 - Frac(2)), N(T0), N(T0 + Hours(48)), Iso(T0), Iso(T0 + Hours(4))),
           HistOk(<<N(T0), N(T0 + Hours(1))>>)),
    \* no instants, no texts; history gives 1; the rate is exactly 0
    BEntry("SOL/USDT:USDT",
           Funding(N(0), UNDEFINED, UNDEFINED, UNDEFINED, UNDEFINED),
           HistOk(<<N(T0), N(T0 + Hours(1))>>)),
    \* no instants, texts that do not parse, history throws
    BEntry("ABCDEFG/USDT:USDT",
           Funding(N(Frac(3) + 4), UNDEFINED, UNDEFINED, S("soon"), S("later")),
           HistThrow),
    \* no instants, one text missing, a single history event
    BEntry("1000PEPE/USDT:USDT",
           Funding(N(Frac(1)), NULL, NULL, Iso(T0), NULL),
           HistOk(<<N(T0)>>)),
    \* every data-driven method out of range: 0 h, 30 h, 30 h
    BEntry("XYZABC/USDT:USDT",
           Funding(N(Frac(5)), N(T0), N(T0 + 29 * MsPerMinute), Iso(T0), Iso(T0 + Hours(30))),
           HistOk(<<N(T0), N(T0 + Hours(30))>>)),
    \* next settlement before the current one: -8 h everywhere
    BEntry("XRP/USDT:USDT",
           Funding(N(Frac(1)), N(T0 + Hours(8)), N(T0), UNDEFINED, UNDEFINED),
           HistOk(<<N(T0 + Hours(8)), N(T0)>>)),
    \* the snapshot carries no rate
    BEntry("DOT/USDT:USDT",
           Funding(UNDEFINED, N(T0), N(T0 + Hours(8)), Iso(T0), Iso(T0 + Hours(8))),
           HistThrow),
    \* the rate is null
    BEntry("TRX/USDT:USDT",
           Funding(NULL, N(T0), N(T0 + Hours(4)), Iso(T0), Iso(T0 + Hours(4))),
           HistThrow),
    \* the snapshot entry is null
    BEntry("LTC/USDT:USDT", NULL, HistThrow),
    \* the history request never settles
    BEntry("ADA/USDT:USDT",
           Funding(N(Frac(1)), UNDEFINED, UNDEFINED, UNDEFINED, UNDEFINED),
           HistHang),
    \* nothing to infer from: on the major list and a meme name, on the
    \* high-frequency list, a 1000 prefix alone, a short name on no list
    BEntry("DOGE/USDT:USDT",
           Funding(N(Frac(1)), UNDEFINED, UNDEFINED, UNDEFINED, UNDEFINED), HistThrow),
    BEntry("TRUMP/USDT:USDT",
           Funding(N(Frac(1)), UNDEFINED, UNDEFINED, UNDEFINED, UNDEFINED), HistThrow),
    BEntry("1000LUNC/USDT:USDT",
           Funding(N(Frac(1)), UNDEFINED, UNDEFINED, UNDEFINED, UNDEFINED), HistThrow),
    BEntry("OP/USDT:USDT",
           Funding(N(Frac(1)), UNDEFINED, UNDEFINED, UNDEFINED, UNDEFINED), HistThrow),
    \* the current settlement is the instant 0, in the texts and in the history
    BEntry("LINK/USDT:USDT",
           Funding(N(Frac(1)), UNDEFINED, UNDEFINED, Iso(0), Iso(Hours(8))),
           HistOk(<<N(0), N(Hours(8))>>)),
    \* a dated contract on BTC
    BEntry("BTC/USDT:USDT-700101",
           Funding(N(Frac(7)), N(T0), N(T0 + Hours(8)), Iso(T0), Iso(T0 + Hours(8))),
           HistThrow),
    \* not a USDT perpetual: filtered out
    BEntry("BTC/USD:BTC",
           Funding(N(Frac(1)), N(T0), N(T0 + Hours(8)), Iso(T0), Iso(T0 + Hours(8))),
           HistThrow),
    BEntry("BNB/USDT",
           Funding(N(Frac(1)), N(T0), N(T0 + Hours(8)), Iso(T0), Iso(T0 + Hours(8))),
           HistThrow) }

BinanceBasic ==
  CHOOSE e \in BinanceCatalogue : e.symbol = "BTC/USDT:USDT"

MexcCatalogue ==
  { MItem(S("BTC_USDT"), N(0 - Frac(2)), N(8), N(T0 + Hours(8))),
    \* a 48 h collect cycle
    MItem(S("ETH_USDT"), N(Frac(1)), N(48), N(T0 + Hours(56))),
    \* rate exactly 0, no cycle, no settlement time
    MItem(S("SOL_USDT"), N(0), UNDEFINED, UNDEFINED),
    MItem(S("DOGE_USDT"), N(Frac(30)), N(4), N(T0 + Hours(4))),
    \* the same base asset under another native name
    MItem(S("btcUSDT"), N(Frac(4)), N(8), N(T0 + Hours(8))),
    \* the cycle as text; no rate
    MItem(S("XRP_USDT"), UNDEFINED, S("4"), N(T0 + Hours(8))),
    \* a negative cycle
    MItem(S("ADA_USDT"), N(0 - Frac(1)), N(0 - 8), N(T0)),
    \* the lowest rate, under a native name without separator
    MItem(S("XRPUSDT"), N(0 - Frac(5)), N(8), N(T0 + Hours(8))),
    \* the next settlement one cycle after the instant 0
    MItem(S("LINK_USDT"), N(Frac(1)), N(8), N(Hours(8))),
    \* not quoted in USDT, and an item without a symbol: skipped
    MItem(S("BTC_USD"), N(Frac(1)), N(8), N(T0 + Hours(8))),
    MItem(UNDEFINED, N(Frac(1)), N(8), N(T0 + Hours(8))) }

MexcBasic ==
  CHOOSE m \in MexcCatalogue : m.symbol = S("BTC_USDT")

MarketCatalogue ==
  { Market("BTC/USDT:USDT", TRUE, TickOk(50000)),
    Market("ETH/USDT:USDT", TRUE, TickThrow),
    Market("SOL/USDT:USDT", TRUE, TickHang),
    Market("ADA/USDT:USDT", TRUE, TickOk(2)),
    Market("BTC/USDT", FALSE, TickOk(50001)),
    Market("BTC/USD:BTC", TRUE, TickOk(50002)) }

MarketBasic ==
  CHOOSE m \in MarketCatalogue : m.symbol = "BTC/USDT:USDT"


(***************************************************************************)
(* Sorting                                                                 *)
(***************************************************************************)
\* The collation order of the characters that occur in symbols: punctuation
\* before digits before letters.
Collation == "_-:/0123456789ABCDEFGHIJKLMNOPQRSTUVWXYZ"

\* a.localeCompare(b) as -1, 0 or 1.
RECURSIVE localeCompare(_, _)
localeCompare(a, b) ==
  IF Len(a) = 0 /\ Len(b) = 0 THEN 0
  ELSE IF Len(a) = 0 THEN -1
  ELSE IF Len(b) = 0 THEN 1
  ELSE LET ca == IndexOf(Collation, SubSeq(a, 1, 1))
           cb == IndexOf(Collation, SubSeq(b, 1, 1))
       IN IF ca < cb THEN -1
          ELSE IF ca > cb THEN 1
          ELSE localeCompare(SubSeq(a, 2, Len(a)), SubSeq(b, 2, Len(b)))

\* The comparators the program sorts with, by name.
\* "symbol":     (a, b) => a.symbol.localeCompare(b.symbol)
\* "difference": (a, b) => parseFloat(a.fundingRateDifference)
\*                           - parseFloat(b.fundingRateDifference)
\* "rate":       (a, b) => (parseFloat(b.fundingRate) || 0)
\*                           - (parseFloat(a.fundingRate) || 0)
Compare(by, a, b) ==
  CASE by = "symbol" -> localeCompare(a.symbol, b.symbol)
    [] by = "difference" ->
         ParseFloatOrZero(S(a.fundingRateDifference))
           - ParseFloatOrZero(S(b.fundingRateDifference))
    [] by = "rate" -> ParseFloatOrZero(b.fundingRate) - ParseFloatOrZero(a.fundingRate)

\* x put into the sorted sequence s behind every element it does not precede.
RECURSIVE InsertSorted(_, _, _)
InsertSorted(s, x, by) ==
  IF Len(s) = 0 THEN <<x>>
  ELSE IF Compare(by, x, s[Len(s)]) < 0
       THEN Append(InsertSorted(SubSeq(s, 1, Len(s) - 1), x, by), s[Len(s)])
       ELSE Append(s, x)

\* The elements of xs put one after the other, in order, into the sorted
\* sequence s: those of the first half of xs, then those of the second.
RECURSIVE InsertAll(_, _, _)
InsertAll(s, xs, by) ==
  IF Len(xs) = 0 THEN s
  ELSE IF Len(xs) = 1 THEN InsertSorted(s, xs[1], by)
  ELSE LET first == InsertAll(s, SubSeq(xs, 1, Len(xs) \div 2), by)
       IN IF Len(first) >= Len(s)
          THEN InsertAll(first, SubSeq(xs, Len(xs) \div 2 + 1, Len(xs)), by)
          ELSE first

\* Array.prototype.sort with a consistent comparator: a stable sort.
ArraySort(s, by) == InsertAll(<<>>, s, by)

\* result.sort((a, b) => a.symbol.localeCompare(b.symbol))
sortBySymbol(result) == ArraySort(result, "symbol")

(***************************************************************************)
(* The newer Binance adapter, one instrument                               *)
(***************************************************************************)
HistoryCap == 50

\* symbol.split(':')[0].replace('/USDT', '')
binanceBaseSymbol(symbol) == Replace(SplitFirst(symbol, ":"), "/USDT", "")

\* Object.keys(fundingRates).filter(USDT perpetuals)
isUsdtPerpetual(symbol) == Includes(symbol, "USDT") /\ Includes(symbol, ":")

\* !data || data.fundingRate === undefined: the instrument is passed over.
passedOver(data) == ~Truthy(data) \/ data.fundingRate = UNDEFINED

\* fundingIntervalHours after method 1 (the pair of instants).
afterMethod1(data) ==
  IF Truthy(data.fundingTimestamp) /\ Truthy(data.nextFundingTime)
  THEN LET interval == calculateFundingInterval(data.fundingTimestamp, data.nextFundingTime)
       IN IF validInterval(interval) THEN interval ELSE NULL
  ELSE NULL

\* fundingIntervalHours after method 2 (the pair of datetime texts).
afterMethod2(data) ==
  LET fundingIntervalHours == afterMethod1(data)
  IN IF ~Truthy(fundingIntervalHours) /\ Truthy(data.fundingDatetime)
          /\ Truthy(data.nextFundingDatetime)
     THEN LET currentTime == DateParse(data.fundingDatetime)
              nextTime == DateParse(data.nextFundingDatetime)
              interval == calculateFundingInterval(currentTime, nextTime)
          IN IF validInterval(interval) THEN interval ELSE fundingIntervalHours
     ELSE fundingIntervalHours

\* Whether method 3 issues its history request.
requestsHistory(data, processedCount) ==
  ~Truthy(afterMethod2(data)) /\ processedCount < HistoryCap

\* fundingIntervalHours after method 3, for a history request that settles.
afterMethod3(entry, processedCount) ==
  LET fundingIntervalHours == afterMethod2(entry.data)
  IN IF requestsHistory(entry.data, processedCount)
     THEN LET historyInterval == getFundingIntervalForSymbol(entry.hist)
          IN IF validInterval(historyInterval) THEN historyInterval
             ELSE fundingIntervalHours
     ELSE fundingIntervalHours

binanceInterval_NoMethod4(entry, processedCount) ==
  afterMethod3(entry, processedCount)

\* fundingIntervalHours after method 4.
binanceInterval(entry, processedCount) ==
  LET fundingIntervalHours == afterMethod3(entry, processedCount)
  IN IF ~Truthy(fundingIntervalHours)
     THEN N(smartFallback(entry.symbol, binanceBaseSymbol(entry.symbol)))
     ELSE fundingIntervalHours

\* data.fundingRate ? (data.fundingRate * 100).toFixed(6) : fallback
percentText(rate, fallback) ==
  IF Truthy(rate)
  THEN LET f == ParseFloat(rate)
       IN IF IsNum(f) THEN S(ToFixed6(f.v * 100)) ELSE S("NaN")
  ELSE fallback

\* The record the newer Binance adapter pushes for one instrument.
binanceRecord(entry, processedCount) ==
  LET data == entry.data
  IN [exchange |-> "BINANCE",
      symbol |-> binanceBaseSymbol(entry.symbol),
      fullSymbol |-> entry.symbol,
      fundingRate |-> percentText(data.fundingRate, S("0.000000")),
      fundingTimestamp |-> data.fundingTimestamp,
      fundingDatetime |-> data.fundingDatetime,
      nextFundingTime |-> OrElse(data.nextFundingTime, data.fundingTimestamp),
      nextFundingDatetime |-> OrElse(data.nextFundingDatetime, data.fundingDatetime),
      fundingIntervalHours |-> binanceInterval(entry, processedCount),
      markPrice |-> data.markPrice,
      indexPrice |-> data.indexPrice]

(***************************************************************************)
(* The newer MEXC adapter                                                  *)
(***************************************************************************)
MexcDefaultInterval == 8
TickerLimit == 20

\* item.symbol && item.symbol.includes('USDT')
mexcItemListed(item) == Truthy(item.symbol) /\ Includes(item.symbol.v, "USDT")

\* item.symbol.replace('_USDT', '').replace('USDT', '').toUpperCase()
mexcBaseSymbol(symbol) == ToUpperCase(Replace(Replace(symbol, "_USDT", ""), "USDT", ""))

\* The interval of the direct path: collectCycle when it is a truthy number.
mexcInterval(item) ==
  IF Truthy(item.collectCycle) /\ IsNum(item.collectCycle)
  THEN item.collectCycle
  ELSE N(MexcDefaultInterval)

\* The record of the direct path for one item of the funding_rate answer.
mexcRecord(item) ==
  LET baseSymbol == mexcBaseSymbol(item.symbol.v)
      fundingIntervalHours == mexcInterval(item)
      settled == Truthy(item.nextSettleTime)
      current == item.nextSettleTime.v - fundingIntervalHours.v * MsPerHour
  IN [exchange |-> "MEXC",
      symbol |-> baseSymbol,
      fullSymbol |-> baseSymbol \o "/USDT:USDT",
      fundingRate |-> percentText(item.fundingRate, NULL),
      fundingTimestamp |-> IF settled THEN N(current) ELSE NULL,
      fundingDatetime |-> IF settled THEN S(ToISOString(current)) ELSE NULL,
      nextFundingTime |-> OrElse(item.nextSettleTime, NULL),
      nextFundingDatetime |->
        IF settled THEN S(ToISOString(item.nextSettleTime.v)) ELSE NULL,
      fundingIntervalHours |-> fundingIntervalHours,
      markPrice |-> NULL,
      indexPrice |-> NULL]

\* data.data.forEach(...): the records of the listed items, in order.
RECURSIVE mexcDirectRecords(_)
mexcDirectRecords(items) ==
  IF Len(items) = 0 THEN <<>>
  ELSE LET rest == mexcDirectRecords(SubSeq(items, 1, Len(items) - 1))
           item == items[Len(items)]
       IN IF mexcItemListed(item) THEN Append(rest, mexcRecord(item)) ELSE rest

\* symbol.includes('/USDT') && exchange.markets[symbol].swap
isMexcSwap(market) == Includes(market.symbol, "/USDT") /\ market.swap

\* The record of the ticker path for one market whose ticker arrived.
tickerRecord(market) ==
  [exchange |-> "MEXC",
   symbol |-> Replace(market.symbol, "/USDT", ""),
   fullSymbol |-> market.symbol,
   fundingRate |-> NULL,
   fundingTimestamp |-> NULL,
   fundingDatetime |-> NULL,
   nextFundingTime |-> NULL,
   nextFundingDatetime |-> NULL,
   fundingIntervalHours |-> N(MexcDefaultInterval),
   markPrice |-> market.ticker.last,
   indexPrice |-> NULL]


(***************************************************************************)
(* The older variant's adapters                                            *)
(***************************************************************************)
OldBatchSize == 10
OldMexcBatchSize == 5
OldMexcLimit == 50
OldFallbackInterval == 8

\* fundingIntervalHours after the first step of the older generic adapter:
\* the Interval Calculator on the pair of instants, taken as it comes.
oldAfterTimestamps(data) ==
  IF Truthy(data.fundingTimestamp) /\ Truthy(data.nextFundingTime)
  THEN calculateFundingInterval(data.fundingTimestamp, data.nextFundingTime)
  ELSE NULL

\* Whether the older generic adapter awaits the history request.
oldRequestsHistory(data) == ~Truthy(oldAfterTimestamps(data))

\* fundingIntervalHours of the older generic adapter, for a history request
\* that settles.
oldInterval(entry) ==
  LET first == oldAfterTimestamps(entry.data)
      second == IF ~Truthy(first) THEN getFundingIntervalForSymbol(entry.hist) ELSE first
  IN IF ~Truthy(second) THEN N(OldFallbackInterval) ELSE second

\* The record the older generic adapter pushes for one instrument.
oldRecord(exchangeName, entry) ==
  LET data == entry.data
  IN [exchange |-> ToUpperCase(exchangeName),
      symbol |-> binanceBaseSymbol(entry.symbol),
      fullSymbol |-> entry.symbol,
      fundingRate |-> percentText(data.fundingRate, NULL),
      fundingTimestamp |-> data.fundingTimestamp,
      fundingDatetime |-> data.fundingDatetime,
      nextFundingTime |-> data.nextFundingTime,
      nextFundingDatetime |-> data.nextFundingDatetime,
      fundingIntervalHours |-> oldInterval(entry),
      markPrice |-> data.markPrice,
      indexPrice |-> data.indexPrice]

Min(a, b) == IF a < b THEN a ELSE b

\* The indices of symbols.slice(base, base + size) in a list of n symbols.
batchIndices(base, size, n) == (base + 1)..Min(base + size, n)

\* The elements of s at the indices in idx up to upto, in order.
RECURSIVE Pick(_, _, _)
Pick(s, idx, upto) ==
  IF upto = 0 \/ \A k \in idx : k > upto THEN <<>>
  ELSE LET rest == Pick(s, idx, upto - 1)
       IN IF upto \in idx THEN Append(rest, s[upto]) ELSE rest

Range(s) == {s[i] : i \in 1..Len(s)}

\* The text of a number or of null inside a template literal.
NumberText(v) ==
  IF IsNum(v) THEN (IF v.v < 0 THEN "-" \o FormatNat(-v.v) ELSE FormatNat(v.v))
  ELSE IF IsStr(v) THEN v.v
  ELSE v.t

\* `${item.fundingIntervalHours}H`
intervalKey(item) == NumberText(item.fundingIntervalHours) \o "H"

intervalStats_KeysOnly(allRates) ==
  [k \in {intervalKey(allRates[i]) : i \in 1..Len(allRates)} |-> 1]

\* intervalStats[interval] = (intervalStats[interval] || 0) + 1
countRecord(stats, item) ==
  LET interval == intervalKey(item)
  IN [k \in DOMAIN stats \cup {interval} |->
        (IF k \in DOMAIN stats THEN stats[k] ELSE 0) + (IF k = interval THEN 1 ELSE 0)]

\* allRates.forEach: the records counted one after the other into stats,
\* those of the first half of items, then those of the second.
RECURSIVE countRecords(_, _)
countRecords(stats, items) ==
  IF Len(items) = 0 THEN stats
  ELSE IF Len(items) = 1 THEN countRecord(stats, items[1])
  ELSE LET first == countRecords(stats, SubSeq(items, 1, Len(items) \div 2))
       IN IF DOMAIN first # {}
          THEN countRecords(first, SubSeq(items, Len(items) \div 2 + 1, Len(items)))
          ELSE first

\* const intervalStats = {}; allRates.forEach(...)
intervalStats(allRates) == countRecords([k \in {} |-> 0], allRates)

(***************************************************************************)
(* The comparison builder of the newer handler                             *)
(***************************************************************************)
TopN == 10

\* Object.keys of the lookup map built from rates: each symbol once, in the
\* order of its first record.
RECURSIVE mapKeys(_)
mapKeys(rates) ==
  IF Len(rates) = 0 THEN <<>>
  ELSE LET rest == mapKeys(SubSeq(rates, 1, Len(rates) - 1))
           symbol == rates[Len(rates)].symbol
       IN IF symbol \in Range(rest) THEN rest ELSE Append(rest, symbol)

\* map[symbol]: the last record stored under the symbol, or undefined.
mapGet(rates, symbol) ==
  LET at == {i \in 1..Len(rates) : rates[i].symbol = symbol}
  IN IF at = {} THEN UNDEFINED
     ELSE [t |-> "obj", item |-> rates[CHOOSE i \in at : \A j \in at : j <= i]]

allSymbols_Concatenated(binanceRates, mexcRates) ==
  mapKeys(binanceRates) \o mapKeys(mexcRates)

\* new Set([...Object.keys(binanceMap), ...Object.keys(mexcMap)]), in order.
allSymbols(binanceRates, mexcRates) ==
  LET bk == mapKeys(binanceRates)
      mk == mapKeys(mexcRates)
      isNew(x) == x \notin Range(bk)
  IN bk \o SelectSeq(mk, isNew)

projection(item) ==
  [fundingRate |-> item.fundingRate,
   fundingIntervalHours |-> item.fundingIntervalHours,
   nextFundingDatetime |-> item.nextFundingDatetime,
   markPrice |-> item.markPrice]

notAvailable ==
  [fundingRate |-> S("N/A"), fundingIntervalHours |-> S("N/A"),
   nextFundingDatetime |-> S("N/A"), markPrice |-> S("N/A")]

\* difference > 0 ? 'BINANCE' : difference < 0 ? 'MEXC' : 'EQUAL'
favorableExchange(difference) ==
  IF difference > 0 THEN "BINANCE" ELSE IF difference < 0 THEN "MEXC" ELSE "EQUAL"

differenceCategory(difference) ==
  IF Abs(difference) >= RateScale \div 10 THEN "HIGH"
  ELSE IF Abs(difference) >= RateScale \div 20 THEN "MEDIUM"
  ELSE "LOW"

isPaired_NullTestInverted(binanceData, mexcData) ==
  /\ Truthy(binanceData) /\ Truthy(mexcData)
  /\ (binanceData.item.fundingRate = NULL \/ mexcData.item.fundingRate = NULL)

\* The condition under which a symbol enters the comparison table.
isPaired(binanceData, mexcData) ==
  /\ Truthy(binanceData) /\ Truthy(mexcData)
  /\ (binanceData.item.fundingRate # NULL \/ mexcData.item.fundingRate # NULL)

rateDifference_BinanceMinusMexc(binanceItem, mexcItem) ==
  ParseFloatOrZero(binanceItem.fundingRate) - ParseFloatOrZero(mexcItem.fundingRate)

\* mexcRate - binanceRate
rateDifference(binanceItem, mexcItem) ==
  ParseFloatOrZero(mexcItem.fundingRate) - ParseFloatOrZero(binanceItem.fundingRate)

\* The entry pushed for a paired symbol whose rate difference is difference.
comparisonEntry(symbol, binanceItem, mexcItem, difference) ==
  [symbol |-> symbol,
   binance |-> projection(binanceItem),
   mexc |-> projection(mexcItem),
   fundingRateDifference |-> ToFixed6(difference),
   absoluteDifference |-> ToFixed6(Abs(difference)),
   favorableExchange |-> favorableExchange(difference),
   differenceCategory |-> differenceCategory(difference)]

\* One pass of allSymbols.forEach: the entry of the symbol when it is paired.
entriesOf(symbol, binanceData, mexcData) ==
  IF isPaired(binanceData, mexcData)
  THEN <<comparisonEntry(symbol, binanceData.item, mexcData.item,
                         rateDifference(binanceData.item, mexcData.item))>>
  ELSE <<>>

\* allSymbols.forEach(...): the entries of the paired symbols, in set order.
RECURSIVE pairedEntries(_, _, _)
pairedEntries(symbols, binanceRates, mexcRates) ==
  IF Len(symbols) = 0 THEN <<>>
  ELSE pairedEntries(SubSeq(symbols, 1, Len(symbols) - 1), binanceRates, mexcRates)
         \o entriesOf(symbols[Len(symbols)],
                      mapGet(binanceRates, symbols[Len(symbols)]),
                      mapGet(mexcRates, symbols[Len(symbols)]))

comparisonTable_Unsorted(binanceRates, mexcRates) ==
  pairedEntries(allSymbols(binanceRates, mexcRates), binanceRates, mexcRates)

\* The comparison table: the paired entries sorted by signed difference.
comparisonTable(binanceRates, mexcRates) ==
  ArraySort(pairedEntries(allSymbols(binanceRates, mexcRates), binanceRates, mexcRates),
            "difference")

binanceOnly(item) ==
  [symbol |-> item.symbol, binance |-> projection(item), mexc |-> notAvailable,
   fundingRateDifference |-> "N/A", absoluteDifference |-> "N/A",
   favorableExchange |-> "BINANCE_ONLY", differenceCategory |-> "N/A"]

mexcOnly(item) ==
  [symbol |-> item.symbol, binance |-> notAvailable, mexc |-> projection(item),
   fundingRateDifference |-> "N/A", absoluteDifference |-> "N/A",
   favorableExchange |-> "MEXC_ONLY", differenceCategory |-> "N/A"]

\* rates.slice(0, n)
Slice0(rates, n) == SubSeq(rates, 1, Min(n, Len(rates)))

\* binanceRates.slice(0, 10).forEach(...) and mexcRates.slice(0, 10).forEach(...)
binanceOnlyEntries(top) == [i \in 1..Len(top) |-> binanceOnly(top[i])]
mexcOnlyEntries(top) == [i \in 1..Len(top) |-> mexcOnly(top[i])]

finalTableData_NoSlice(table, binanceRates, mexcRates) ==
  IF Len(table) = 0
  THEN binanceOnlyEntries(binanceRates) \o mexcOnlyEntries(mexcRates)
  ELSE table

\* finalTableData: the comparison table, or the first records of each
\* exchange when no symbol is paired.
finalTableData(table, binanceRates, mexcRates) ==
  IF Len(table) = 0
  THEN binanceOnlyEntries(Slice0(binanceRates, TopN))
         \o mexcOnlyEntries(Slice0(mexcRates, TopN))
  ELSE table

CountWhere(s, Test(_)) == Len(SelectSeq(s, Test))

isHigh(e) == e.differenceCategory = "HIGH"
isMedium(e) == e.differenceCategory = "MEDIUM"
isLow(e) == e.differenceCategory = "LOW"
forBinance(e) == e.favorableExchange = "BINANCE"
forMexc(e) == e.favorableExchange = "MEXC"

\* The response body built around the comparison table (timestamp and
\* fetchDuration left out).
responseData(table, binanceRates, mexcRates) ==
  [status |-> 200,
   success |-> TRUE,
   summary |->
     [totalUniqueCoins |-> Len(allSymbols(binanceRates, mexcRates)),
      commonCoins |-> Len(table),
      exchanges |-> [binance |-> Len(binanceRates), mexc |-> Len(mexcRates)],
      fundingIntervals |-> intervalStats(binanceRates \o mexcRates),
      differenceStats |->
        [highDifferences |-> CountWhere(table, isHigh),
         mediumDifferences |-> CountWhere(table, isMedium),
         lowDifferences |-> CountWhere(table, isLow),
         favorsBinance |-> CountWhere(table, forBinance),
         favorsMexc |-> CountWhere(table, forMexc)]],
   tableData |-> finalTableData(table, binanceRates, mexcRates),
   rawData |-> [binance |-> binanceRates, mexc |-> mexcRates]]

\* The response of the newer handler.
newResponse(binanceRates, mexcRates) ==
  responseData(comparisonTable(binanceRates, mexcRates), binanceRates, mexcRates)

(***************************************************************************)
(* The response of the older handler                                       *)
(***************************************************************************)
RECURSIVE rateSum(_)
rateSum(allRates) ==
  IF Len(allRates) = 0 THEN 0
  ELSE IF Len(allRates) = 1 THEN ParseFloatOrZero(allRates[1].fundingRate)
  ELSE rateSum(SubSeq(allRates, 1, Len(allRates) \div 2))
         + rateSum(SubSeq(allRates, Len(allRates) \div 2 + 1, Len(allRates)))

\* (sum / n).toFixed(6)
averageText(sum, n) ==
  LET m == (2 * Abs(sum) + 1000 * n) \div (2 * 1000 * n)
  IN (IF sum < 0 THEN "-" ELSE "")
       \o FormatNat(m \div 1000000) \o "." \o PadZero(m % 1000000, 6)

oldResponse(binanceRates, mexcRates) ==
  LET allRates == ArraySort(binanceRates \o mexcRates, "rate")
  IN [status |-> 200,
      success |-> TRUE,
      totalContracts |-> Len(allRates),
      exchanges |-> [binance |-> Len(binanceRates), mexc |-> Len(mexcRates)],
      fundingIntervals |-> intervalStats(allRates),
      data |-> allRates,
      summary |->
        [highestFundingRate |->
           IF Len(allRates) > 0 THEN [t |-> "obj", item |-> allRates[1]] ELSE NULL,
         lowestFundingRate |->
           IF Len(allRates) > 0 THEN [t |-> "obj", item |-> allRates[Len(allRates)]]
           ELSE NULL,
         averageFundingRate |->
           IF Len(allRates) > 0 THEN S(averageText(rateSum(allRates), Len(allRates)))
           ELSE N(0)]]


(***************************************************************************)
(* The worlds a run can meet                                               *)
(***************************************************************************)
\* snapshot: the entries of the object fetchFundingRates resolves to, in key
\* order; mexcApi: the JSON of MEXC's funding_rate endpoint; markets: the
\* entries of exchange.markets of MEXC, in key order.
World(snapshot, mexcApi, markets) ==
  [snapshot |-> snapshot, mexcApi |-> mexcApi, markets |-> markets]

ApiData(items) == [success |-> TRUE, hasData |-> TRUE, data |-> items]
ApiRefused == [success |-> FALSE, hasData |-> FALSE, data |-> <<>>]
ApiNoData == [success |-> TRUE, hasData |-> FALSE, data |-> <<>>]

BE(sym) == CHOOSE e \in BinanceCatalogue : e.symbol = sym
ME(sym) == CHOOSE m \in MexcCatalogue : m.symbol = S(sym)
MK(sym) == CHOOSE m \in MarketCatalogue : m.symbol = sym

\* One Binance instrument of every kind, beside a plain MEXC.
RichBinanceWorlds ==
  {World(<<e>>, ApiData(<<MexcBasic>>), <<MarketBasic>>) : e \in BinanceCatalogue}

\* One MEXC item or market of every kind, beside a plain Binance.
RichMexcWorlds ==
  {World(<<BinanceBasic>>, ApiData(<<m>>), <<MarketBasic>>) : m \in MexcCatalogue}
    \cup {World(<<BinanceBasic>>, a, <<k>>) :
            a \in {ApiRefused, ApiNoData}, k \in MarketCatalogue}

SnapshotMany ==
  <<BE("SOL/USDT:USDT"), BE("BTC/USDT:USDT"), BE("XRP/USDT:USDT"),
    BE("1000PEPE/USDT:USDT"), BE("ETH/USDT:USDT")>>
SnapshotSameBase == <<BE("BTC/USDT:USDT"), BE("BTC/USDT:USDT-700101")>>
\* A null entry and a history request that throws, among sound instruments.
SnapshotBroken ==
  <<BE("BTC/USDT:USDT"), BE("LTC/USDT:USDT"), BE("ABCDEFG/USDT:USDT"), BE("ETH/USDT:USDT")>>

ItemsMany ==
  <<ME("XRP_USDT"), ME("DOGE_USDT"), ME("BTC_USDT"), ME("ETH_USDT"), ME("SOL_USDT")>>
ItemsSameBase == <<ME("BTC_USDT"), ME("btcUSDT")>>
ItemsApart == <<ME("DOGE_USDT"), ME("ADA_USDT")>>
ItemsWithRates == <<ME("DOGE_USDT"), ME("BTC_USDT"), ME("ETH_USDT")>>
\* Differences that do not come in the order of the symbols.
ItemsReversed == <<ME("btcUSDT"), ME("ETH_USDT"), ME("XRPUSDT")>>

MarketsMany ==
  <<MK("ETH/USDT:USDT"), MK("BTC/USDT"), MK("BTC/USDT:USDT"), MK("BTC/USD:BTC"),
    MK("ADA/USDT:USDT")>>

\* Several instruments on both sides: overlapping, disjoint, repeated.
PairWorlds ==
  {World(sn, ApiData(it), MarketsMany) :
     sn \in {SnapshotMany, SnapshotSameBase, <<>>},
     it \in {ItemsMany, ItemsSameBase, ItemsApart, ItemsWithRates, ItemsReversed, <<>>}}

\* Instruments that fail one by one.
FaultWorlds == {World(SnapshotBroken, ApiData(<<MexcBasic>>), MarketsMany)}

\* Instruments of every class of method 4 with nothing to infer from, in one
\* order and in the opposite one.
SnapshotClasses ==
  <<BE("XRP/USDT:USDT"), BE("ABCDEFG/USDT:USDT"), BE("XYZABC/USDT:USDT"),
    BE("1000PEPE/USDT:USDT"), BE("DOGE/USDT:USDT"), BE("TRUMP/USDT:USDT"),
    BE("1000LUNC/USDT:USDT"), BE("OP/USDT:USDT")>>
Reversed(s) == [i \in 1..Len(s) |-> s[Len(s) + 1 - i]]
ClassWorlds ==
  {World(sn, ApiData(<<MexcBasic>>), <<MarketBasic>>) :
     sn \in {SnapshotClasses, Reversed(SnapshotClasses)}}

\* n instruments named C01, C02, ... none with usable instants or texts and
\* each with a one-hour history.
WideName(i) == "C" \o PadZero(i, 2)
WideSnapshot(n) ==
  [i \in 1..n |->
     BEntry(WideName(i) \o "/USDT:USDT",
            Funding(N(Frac(1)), UNDEFINED, UNDEFINED, UNDEFINED, UNDEFINED),
            HistOk(<<N(T0), N(T0 + Hours(1))>>))]
\* n instruments named D01, D02, ... each with an eight-hour pair of instants.
PlainSnapshot(n) ==
  [i \in 1..n |->
     BEntry("D" \o PadZero(i, 2) \o "/USDT:USDT",
            Funding(N(Frac(1)), N(T0), N(T0 + Hours(8)), Iso(T0), Iso(T0 + Hours(8))),
            HistThrow)]
\* n instruments named E001, E002, ... of which the first of every ten has
\* no instants and a one-hour history, and the others an eight-hour pair.
SparseSnapshot(n) ==
  [i \in 1..n |->
     BEntry("E" \o PadZero(i, 3) \o "/USDT:USDT",
            IF i % OldBatchSize = 1
            THEN Funding(N(1000), UNDEFINED, UNDEFINED, UNDEFINED, UNDEFINED)
            ELSE Funding(N(1000), N(T0), N(T0 + Hours(8)), Iso(T0), Iso(T0 + Hours(8))),
            HistOk(<<N(T0), N(T0 + Hours(1))>>))]
\* n instruments named F01, F02, ... of which the first three and those past
\* the first batch have no instants; the history request of F02 throws.
BatchSnapshot(n) ==
  [i \in 1..n |->
     BEntry("F" \o PadZero(i, 2) \o "/USDT:USDT",
            IF i <= 3 \/ i > OldBatchSize
            THEN Funding(N(1000), UNDEFINED, UNDEFINED, UNDEFINED, UNDEFINED)
            ELSE Funding(N(1000), N(T0), N(T0 + Hours(8)), Iso(T0), Iso(T0 + Hours(8))),
            IF i = 2 THEN HistThrow ELSE HistOk(<<N(T0), N(T0 + Hours(1))>>))]
\* A whole batch of instruments without instants; only the history requests
\* of the first two settle.
FullBatchSnapshot ==
  [i \in 1..OldBatchSize |->
     BEntry("G" \o PadZero(i, 2) \o "/USDT:USDT",
            Funding(N(1000), UNDEFINED, UNDEFINED, UNDEFINED, UNDEFINED),
            IF i <= 2 THEN HistOk(<<N(T0), N(T0 + Hours(1))>>) ELSE HistHang)]
\* n swap markets named L01, L02, ... ; the ticker request of L02 throws.
BatchMarkets(n) ==
  [i \in 1..n |-> Market("L" \o PadZero(i, 2) \o "/USDT:USDT", TRUE,
                          IF i = 2 THEN TickThrow ELSE TickOk(i))]
WideItems(n) ==
  [i \in 1..n |-> MItem(S("M" \o PadZero(i, 2) \o "_USDT"), N(Frac(2)), N(8),
                        N(T0 + Hours(8)))]
WideMarkets(n) ==
  [i \in 1..n |-> Market("K" \o PadZero(i, 2) \o "/USDT:USDT", TRUE, TickOk(i))]

\* More instruments than the history cap, than a batch, than the table's
\* top list, than the ticker limit.
WideInstruments == 52
ManyInstruments == 11
ManyMarkets == 21
\* More batches of the older adapter than the history cap.
SparseInstruments == 501
\* Two batches of the older generic adapter, of the older MEXC adapter.
TwoBatchInstruments == 12
TwoBatchMarkets == 7

WideWorlds ==
  { World(WideSnapshot(WideInstruments), ApiRefused, <<>>),
    World(PlainSnapshot(ManyInstruments), ApiData(WideItems(ManyInstruments)),
          WideMarkets(ManyMarkets)) }

\* The worlds of each variant.  The older variant's batches complete in any
\* order, so its wide worlds are the ones with few requests of a batch that
\* settle.
Worlds(v) ==
  RichBinanceWorlds \cup RichMexcWorlds \cup PairWorlds \cup FaultWorlds
    \cup (IF v = "new" THEN WideWorlds \cup ClassWorlds
          ELSE { World(PlainSnapshot(ManyInstruments), ApiRefused, <<>>),
                 World(SparseSnapshot(SparseInstruments), ApiRefused, <<>>),
                 World(BatchSnapshot(TwoBatchInstruments), ApiRefused, <<>>),
                 World(FullBatchSnapshot, ApiRefused, <<>>),
                 World(<<>>, ApiRefused, BatchMarkets(TwoBatchMarkets)) })

(***************************************************************************)
(* State                                                                   *)
(***************************************************************************)
VARIABLES
  variant,       \* "new": api/funding-rates.js; "old": the older variant
  reqMethod,     \* req.method
  exch,          \* the world of this run
  hpc,           \* where the handler stands
  ad,            \* per source, the state of its adapter call
  timer,         \* per source, the 20 s timer: "unset", "armed", "fired"
  race,          \* per source, Promise.race: "none", "pending", "value", "timeout"
  binanceRates,  \* the handler's binanceRates
  mexcRates,     \* the handler's mexcRates
  sent           \* the responses sent on res, in order

vars == <<variant, reqMethod, exch, hpc, ad, timer, race, binanceRates, mexcRates, sent>>

Sources == {"binance", "mexc"}
Variants == {"new", "old"}
Methods == {"GET", "POST", "OPTIONS"}

\* An adapter call that has not started.
\* pc: "idle", "loadMarkets", "fetchFundingRates", "fetchApi", "loop",
\*     "ticker", "batch", "delay", "hung", "returned"
\* i: the loop index (newer adapters) or the batch base (older adapters)
\* pending: the batch members whose request has not settled
\* failed: a batch member has thrown
\* history: the symbols a history request was issued for, in order
\* fault: the adapter-level step that failed: "none", "loadMarkets",
\*        "snapshot" (the request threw), "nothing" (it resolved to nothing),
\*        "fetchApi" (MEXC's funding_rate request threw)
IdleAdapter ==
  [pc |-> "idle", i |-> 0, result |-> <<>>, processedCount |-> 0,
   pending |-> {}, failed |-> FALSE, history |-> <<>>, ret |-> <<>>, fault |-> "none"]

Init ==
  /\ variant \in Variants
  /\ reqMethod \in Methods
  /\ exch \in Worlds(variant)
  /\ hpc = "start"
  /\ ad = [s \in Sources |-> IdleAdapter]
  /\ timer = [s \in Sources |-> "unset"]
  /\ race = [s \in Sources |-> "none"]
  /\ binanceRates = <<>>
  /\ mexcRates = <<>>
  /\ sent = <<>>


(***************************************************************************)
(* Adapter calls                                                           *)
(***************************************************************************)
\* The outcomes of an awaited network call.
CallOutcomes == {"ok", "throw", "hang"}

isPerpetualEntry(e) == isUsdtPerpetual(e.symbol)

\* The USDT perpetuals of the snapshot, in key order.
binanceSymbols == SelectSeq(exch.snapshot, isPerpetualEntry)

\* The swap markets of MEXC, in key order.
mexcSwapMarkets == SelectSeq(exch.markets, isMexcSwap)

\* The markets of the newer ticker path: .slice(0, 20)
tickerSymbols == Slice0(mexcSwapMarkets, TickerLimit)

\* The adapter call has returned value (an async function's return).
Returned(a, value) == [a EXCEPT !.pc = "returned", !.ret = value]

Hung(a) == [a EXCEPT !.pc = "hung"]

afterFailure_Escapes(a, step) == [a EXCEPT !.pc = "threw", !.fault = step]

\* The adapter-level step has failed: the adapter's catch block (or its test
\* for an empty snapshot) returns [].
afterFailure(a, step) == Returned([a EXCEPT !.fault = step], <<>>)

\* Source s's adapter moves to a; a value it returns settles a pending race.
AdapterStep(s, a) ==
  /\ ad' = [ad EXCEPT ![s] = a]
  /\ race' = IF a.pc = "returned" /\ race[s] = "pending"
             THEN [race EXCEPT ![s] = "value"]
             ELSE race
  /\ UNCHANGED <<variant, reqMethod, exch, hpc, timer, binanceRates, mexcRates, sent>>

\* The older MEXC adapter starts the batch at base, or returns.
oldMexcStartBatch(a, base) ==
  LET n == Len(mexcSwapMarkets)
  IN IF base < Min(n, OldMexcLimit)
     THEN [a EXCEPT !.pc = "batch", !.i = base,
                    !.pending = batchIndices(base, OldMexcBatchSize, n)]
     ELSE Returned(a, a.result)

\* await exchange.loadMarkets(), the first step of every adapter.
LoadMarkets(s) ==
  /\ ad[s].pc = "loadMarkets"
  /\ \E outcome \in CallOutcomes :
       AdapterStep(s,
         CASE outcome = "throw" -> afterFailure(ad[s], "loadMarkets")
           [] outcome = "hang" -> Hung(ad[s])
           [] outcome = "ok" /\ s = "binance" -> [ad[s] EXCEPT !.pc = "fetchFundingRates"]
           [] outcome = "ok" /\ s = "mexc" /\ variant = "new" -> [ad[s] EXCEPT !.pc = "fetchApi"]
           [] outcome = "ok" /\ s = "mexc" /\ variant = "old" -> oldMexcStartBatch(ad[s], 0))

\* The newer Binance adapter after iteration a.i: the next one, or sort and return.
binanceAdvance(a) ==
  IF a.i = Len(binanceSymbols)
  THEN Returned(a, sortBySymbol(a.result))
  ELSE [a EXCEPT !.i = a.i + 1]

\* await exchange.fetchFundingRates() in fetchBinanceFundingRates.  "none":
\* the call resolves to nothing.
BinanceFetchFundingRates ==
  /\ variant = "new"
  /\ ad["binance"].pc = "fetchFundingRates"
  /\ \E outcome \in CallOutcomes \cup {"none"} :
       LET a == ad["binance"]
       IN AdapterStep("binance",
            CASE outcome = "throw" -> afterFailure(a, "snapshot")
              [] outcome = "none" -> afterFailure(a, "nothing")
              [] outcome = "hang" -> Hung(a)
              [] outcome = "ok" ->
                   IF Len(exch.snapshot) = 0 THEN Returned(a, <<>>)
                   ELSE IF Len(binanceSymbols) = 0 THEN Returned(a, sortBySymbol(<<>>))
                   ELSE [a EXCEPT !.pc = "loop", !.i = 1])

\* One iteration of the for loop of fetchBinanceFundingRates, with the
\* history request it may await.
BinanceIterate ==
  /\ variant = "new"
  /\ ad["binance"].pc = "loop"
  /\ LET a == ad["binance"]
         entry == binanceSymbols[a.i]
     IN AdapterStep("binance",
          IF passedOver(entry.data) THEN binanceAdvance(a)
          ELSE IF requestsHistory(entry.data, a.processedCount)
          THEN LET asked == [a EXCEPT !.history = Append(a.history, entry.symbol)]
               IN IF entry.hist.kind = "hang" THEN Hung(asked)
                  ELSE binanceAdvance(
                         [asked EXCEPT
                            !.result = Append(a.result, binanceRecord(entry, a.processedCount)),
                            !.processedCount = a.processedCount + 1])
          ELSE binanceAdvance(
                 [a EXCEPT
                    !.result = Append(a.result, binanceRecord(entry, a.processedCount)),
                    !.processedCount = a.processedCount + 1]))

\* The newer MEXC adapter after ticker iteration a.i.
mexcAdvance(a) ==
  IF a.i = Len(tickerSymbols)
  THEN Returned(a, sortBySymbol(a.result))
  ELSE [a EXCEPT !.i = a.i + 1]

\* await fetch(funding_rate) and response.json() in fetchMexcFundingRates:
\* the records of the direct path, or the start of the ticker path.
MexcFetchApi ==
  /\ variant = "new"
  /\ ad["mexc"].pc = "fetchApi"
  /\ \E outcome \in CallOutcomes :
       LET a == ad["mexc"]
           data == exch.mexcApi
       IN AdapterStep("mexc",
            CASE outcome = "hang" -> Hung(a)
              [] outcome = "ok" ->
                   Returned(a, sortBySymbol(IF data.success /\ data.hasData
                                            THEN mexcDirectRecords(data.data)
                                            ELSE <<>>))
              [] outcome = "throw" ->
                   IF Len(tickerSymbols) = 0
                   THEN Returned([a EXCEPT !.fault = "fetchApi"], sortBySymbol(<<>>))
                   ELSE [a EXCEPT !.pc = "ticker", !.i = 1, !.fault = "fetchApi"])

\* One iteration of the ticker loop: await exchange.fetchTicker(symbol).
MexcTicker ==
  /\ variant = "new"
  /\ ad["mexc"].pc = "ticker"
  /\ LET a == ad["mexc"]
         market == tickerSymbols[a.i]
     IN AdapterStep("mexc",
          CASE market.ticker.kind = "hang" -> Hung(a)
            [] market.ticker.kind = "throw" -> mexcAdvance(a)
            [] market.ticker.kind = "ok" ->
                 mexcAdvance([a EXCEPT !.result = Append(a.result, tickerRecord(market))]))

(***************************************************************************)
(* The older adapters: batches joined by Promise.all                       *)
(***************************************************************************)
\* await Promise.all(batch.map(...)) resumes once every member has settled.
joined_AfterFirst(pending) == TRUE
joined(pending) == pending = {}

\* The older generic adapter after the batch at base has been joined.
oldAfterJoin(a, base) ==
  IF base + OldBatchSize < Len(binanceSymbols)
  THEN [a EXCEPT !.pc = "delay", !.i = base]
  ELSE Returned(a, a.result)

\* The records the members of a batch push before any of them awaits: those
\* of the members that need no history request, in order.
RECURSIVE oldSyncRecords(_, _, _)
oldSyncRecords(symbols, idx, upto) ==
  IF upto \notin idx THEN <<>>
  ELSE IF Truthy(symbols[upto].data) /\ ~oldRequestsHistory(symbols[upto].data)
  THEN Append(oldSyncRecords(symbols, idx, upto - 1), oldRecord("binance", symbols[upto]))
  ELSE oldSyncRecords(symbols, idx, upto - 1)

\* The older generic adapter starts the batch at base: every member runs to
\* its first await.  A member whose snapshot entry is null throws, which
\* rejects Promise.all and makes the adapter return [] while the history
\* requests of the other members are still in flight.
oldStartBatch(a, base) ==
  LET symbols == binanceSymbols
      n == Len(symbols)
      idx == batchIndices(base, OldBatchSize, n)
      thrown == \E k \in idx : ~Truthy(symbols[k].data)
      pend == {k \in idx : /\ Truthy(symbols[k].data)
                           /\ oldRequestsHistory(symbols[k].data)}
      last == Min(base + OldBatchSize, n)
      asked == Pick([k \in 1..n |-> symbols[k].symbol], pend, last)
      b == [a EXCEPT !.result = a.result \o oldSyncRecords(symbols, idx, last),
                     !.history = a.history \o asked,
                     !.i = base]
  IN IF base >= n THEN Returned(a, a.result)
     ELSE IF thrown THEN Returned([b EXCEPT !.failed = TRUE, !.pending = pend], <<>>)
     ELSE IF pend = {} THEN oldAfterJoin(b, base)
     ELSE [b EXCEPT !.pc = "batch", !.pending = pend]

\* await exchange.fetchFundingRates() in the older fetchFundingRates.
OldFetchFundingRates ==
  /\ variant = "old"
  /\ ad["binance"].pc = "fetchFundingRates"
  /\ \E outcome \in CallOutcomes \cup {"none"} :
       LET a == ad["binance"]
       IN AdapterStep("binance",
            CASE outcome = "throw" -> afterFailure(a, "snapshot")
              [] outcome = "none" -> afterFailure(a, "nothing")
              [] outcome = "hang" -> Hung(a)
              [] outcome = "ok" -> oldStartBatch(a, 0))

\* The history request of one member of the batch settles: the member pushes
\* its record; the last one to settle joins the batch.  After a rejected
\* batch the adapter has returned and the member's record goes nowhere.
OldMemberDone ==
  /\ variant = "old"
  /\ ad["binance"].pc = "batch" \/ (ad["binance"].pc = "returned" /\ ad["binance"].failed)
  /\ \E k \in ad["binance"].pending :
       LET a == ad["binance"]
           entry == binanceSymbols[k]
           b == [a EXCEPT !.result = Append(a.result, oldRecord("binance", entry)),
                          !.pending = a.pending \ {k}]
       IN /\ entry.hist.kind # "hang"
          /\ AdapterStep("binance",
               IF a.pc = "returned" THEN [a EXCEPT !.pending = a.pending \ {k}]
               ELSE IF joined(b.pending) THEN oldAfterJoin(b, a.i)
               ELSE b)

\* The delay between two batches of the older generic adapter ends.
OldDelayDone ==
  /\ variant = "old"
  /\ ad["binance"].pc = "delay"
  /\ AdapterStep("binance", oldStartBatch(ad["binance"], ad["binance"].i + OldBatchSize))

\* The ticker request of one member of the older MEXC batch settles.
OldMexcMemberDone ==
  /\ variant = "old"
  /\ ad["mexc"].pc = "batch"
  /\ \E k \in ad["mexc"].pending :
       LET a == ad["mexc"]
           market == mexcSwapMarkets[k]
           pushed == IF market.ticker.kind = "ok"
                     THEN Append(a.result, tickerRecord(market))
                     ELSE a.result
           b == [a EXCEPT !.result = pushed, !.pending = a.pending \ {k}]
       IN /\ market.ticker.kind # "hang"
          /\ AdapterStep("mexc", IF joined(b.pending) THEN [b EXCEPT !.pc = "delay"] ELSE b)

\* The delay after a batch of the older MEXC adapter ends.
OldMexcDelayDone ==
  /\ variant = "old"
  /\ ad["mexc"].pc = "delay"
  /\ AdapterStep("mexc", oldMexcStartBatch(ad["mexc"], ad["mexc"].i + OldMexcBatchSize))

(***************************************************************************)
(* The handlers                                                            *)
(***************************************************************************)
\* fetchFundingRates(name, exchange) is called: it runs to its first await.
Started == [IdleAdapter EXCEPT !.pc = "loadMarkets"]

\* req.method === 'OPTIONS'
HandlerOptions ==
  /\ hpc = "start"
  /\ reqMethod = "OPTIONS"
  /\ sent' = Append(sent, [status |-> 200, success |-> FALSE])
  /\ hpc' = "done"
  /\ UNCHANGED <<variant, reqMethod, exch, ad, timer, race, binanceRates, mexcRates>>

\* req.method !== 'GET'
HandlerNotAllowed ==
  /\ hpc = "start"
  /\ reqMethod \notin {"OPTIONS", "GET"}
  /\ sent' = Append(sent, [status |-> 405, success |-> FALSE])
  /\ hpc' = "done"
  /\ UNCHANGED <<variant, reqMethod, exch, ad, timer, race, binanceRates, mexcRates>>

\* The newer handler starts the Binance fetch and its timer and awaits the race.
HandlerStartNew ==
  /\ hpc = "start"
  /\ reqMethod = "GET"
  /\ variant = "new"
  /\ ad' = [ad EXCEPT !["binance"] = Started]
  /\ timer' = [timer EXCEPT !["binance"] = "armed"]
  /\ race' = [race EXCEPT !["binance"] = "pending"]
  /\ hpc' = "awaitBinance"
  /\ UNCHANGED <<variant, reqMethod, exch, binanceRates, mexcRates, sent>>

raceResult_TakesLateValue(s) == ad[s].ret

\* What the race of source s gives the handler: the adapter's value, or [] in
\* the catch block after the timer's rejection.
raceResult(s) == IF race[s] = "value" THEN ad[s].ret ELSE <<>>

\* The Binance race has settled: the handler takes its result and starts the
\* MEXC fetch and its timer.
HandlerBinanceSettled ==
  /\ hpc = "awaitBinance"
  /\ race["binance"] \in {"value", "timeout"}
  /\ binanceRates' = raceResult("binance")
  /\ ad' = [ad EXCEPT !["mexc"] = Started]
  /\ timer' = [timer EXCEPT !["mexc"] = "armed"]
  /\ race' = [race EXCEPT !["mexc"] = "pending"]
  /\ hpc' = "awaitMexc"
  /\ UNCHANGED <<variant, reqMethod, exch, mexcRates, sent>>

\* The MEXC race has settled: the handler builds and sends the response.
HandlerMexcSettled ==
  /\ hpc = "awaitMexc"
  /\ race["mexc"] \in {"value", "timeout"}
  /\ mexcRates' = raceResult("mexc")
  /\ sent' = Append(sent, newResponse(binanceRates, mexcRates'))
  /\ hpc' = "done"
  /\ UNCHANGED <<variant, reqMethod, exch, ad, timer, race, binanceRates>>

\* The 20 s timer of source s fires: its rejection settles a pending race.
TimerFire(s) ==
  /\ timer[s] = "armed"
  /\ timer' = [timer EXCEPT ![s] = "fired"]
  /\ race' = IF race[s] = "pending" THEN [race EXCEPT ![s] = "timeout"] ELSE race
  /\ UNCHANGED <<variant, reqMethod, exch, hpc, ad, binanceRates, mexcRates, sent>>

\* The older handler starts both fetches and awaits Promise.all.
HandlerStartOld ==
  /\ hpc = "start"
  /\ reqMethod = "GET"
  /\ variant = "old"
  /\ ad' = [s \in Sources |-> Started]
  /\ hpc' = "awaitAll"
  /\ UNCHANGED <<variant, reqMethod, exch, timer, race, binanceRates, mexcRates, sent>>

\* Promise.all has resolved: the older handler builds and sends the response.
HandlerAllSettled ==
  /\ hpc = "awaitAll"
  /\ \A s \in Sources : ad[s].pc = "returned"
  /\ binanceRates' = ad["binance"].ret
  /\ mexcRates' = ad["mexc"].ret
  /\ sent' = Append(sent, oldResponse(binanceRates', mexcRates'))
  /\ hpc' = "done"
  /\ UNCHANGED <<variant, reqMethod, exch, ad, timer, race>>

Next ==
  \/ HandlerOptions
  \/ HandlerNotAllowed
  \/ HandlerStartNew
  \/ HandlerBinanceSettled
  \/ HandlerMexcSettled
  \/ HandlerStartOld
  \/ HandlerAllSettled
  \/ \E s \in Sources : TimerFire(s)
  \/ \E s \in Sources : LoadMarkets(s)
  \/ BinanceFetchFundingRates
  \/ BinanceIterate
  \/ MexcFetchApi
  \/ MexcTicker
  \/ OldFetchFundingRates
  \/ OldMemberDone
  \/ OldDelayDone
  \/ OldMexcMemberDone
  \/ OldMexcDelayDone

Spec == Init /\ [][Next]_vars

(***************************************************************************)
(* Properties                                                              *)
(***************************************************************************)
\* A response carrying the success payload.
isSuccess(resp) == resp.status = 200 /\ resp.success

\* The funding records a success payload carries: rawData of the newer
\* handler, data of the older one.
recordsOf(resp) ==
  IF variant = "new" THEN resp.rawData.binance \o resp.rawData.mexc ELSE resp.data

\* h is an integer number of hours in (0, 24].
hoursInRange(h) == IsNum(h) /\ h.v > 0 /\ h.v <= 24

\* C1: in every response sent, every funding record of every adapter has a
\* fundingIntervalHours that is a non-null integer h with 0 < h <= 24.
C1_IntervalInRange ==
  \A k \in DOMAIN sent :
    isSuccess(sent[k]) =>
      \A i \in DOMAIN recordsOf(sent[k]) :
        hoursInRange(recordsOf(sent[k])[i].fundingIntervalHours)

\* Whether member k of source s's current batch has a request that settles.
memberSettles(s, k) ==
  IF s = "binance" THEN binanceSymbols[k].hist.kind # "hang"
  ELSE mexcSwapMarkets[k].ticker.kind # "hang"

\* Source s's adapter has a continuation the event loop can still run.
adapterReady(s) ==
  \/ ad[s].pc \in {"loadMarkets", "fetchFundingRates", "fetchApi", "loop", "ticker", "delay"}
  \/ ad[s].pc = "batch" /\ \E k \in ad[s].pending : memberSettles(s, k)

\* The handler has a continuation the event loop can still run.
handlerReady ==
  \/ hpc = "start"
  \/ hpc = "awaitBinance" /\ race["binance"] \in {"value", "timeout"}
  \/ hpc = "awaitMexc" /\ race["mexc"] \in {"value", "timeout"}
  \/ hpc = "awaitAll" /\ \A s \in Sources : ad[s].pc = "returned"

\* Nothing is left to run: no continuation is ready and no timer is armed.
Quiet ==
  /\ ~handlerReady
  /\ \A s \in Sources : ~adapterReady(s) /\ timer[s] # "armed"

\* Source s's fetch was started and waits on a network call that never settles.
hangs(s) == ad[s].pc \in {"hung", "batch"} /\ ~adapterReady(s)

\* C2: a source whose fetch never completes does not block the run: when
\* nothing is left to run and a source hangs, the handler has completed.
C2_HangingSourceDoesNotBlock ==
  (Quiet /\ \E s \in Sources : hangs(s)) => hpc = "done"

\* C3: a GET request ends answered by exactly one response, the success
\* payload, whatever the sources do.
C3_GetAnsweredOnce ==
  (Quiet /\ reqMethod = "GET") => (Len(sent) = 1 /\ isSuccess(sent[1]))

\* C4: the sources run concurrently, each under its own timer counted from
\* the start of the run: once the first fetch has started, the second has
\* started too and both timers are armed or have fired.
C4_ConcurrentAndBounded ==
  (ad["binance"].pc # "idle") =>
    /\ ad["mexc"].pc # "idle"
    /\ \A s \in Sources : timer[s] # "unset"

\* The snapshot entry a Binance record was made from.
entryOf(record) ==
  CHOOSE e \in Range(binanceSymbols) : e.symbol = record.fullSymbol

\* What each method of the inference gives for one entry, before validation:
\* 1 the pair of instants, 2 the pair of datetime texts, 3 the history, 4 the
\* static classification.
method1(e) ==
  IF Truthy(e.data.fundingTimestamp) /\ Truthy(e.data.nextFundingTime)
  THEN calculateFundingInterval(e.data.fundingTimestamp, e.data.nextFundingTime)
  ELSE NULL
method2(e) ==
  IF Truthy(e.data.fundingDatetime) /\ Truthy(e.data.nextFundingDatetime)
  THEN calculateFundingInterval(DateParse(e.data.fundingDatetime),
                                DateParse(e.data.nextFundingDatetime))
  ELSE NULL
method3(e) == getFundingIntervalForSymbol(e.hist)
method4(e) == N(smartFallback(e.symbol, binanceBaseSymbol(e.symbol)))

\* A history request was issued for the entry.
asked(e) == e.symbol \in Range(ad["binance"].history)

\* The first result in (0, 24] in the order 1, 2, 3 (when requested), 4.
firstInRange(e) ==
  IF hoursInRange(method1(e)) THEN method1(e)
  ELSE IF hoursInRange(method2(e)) THEN method2(e)
  ELSE IF asked(e) /\ hoursInRange(method3(e)) THEN method3(e)
  ELSE method4(e)

\* C5: every record the Binance adapter pushes carries the result of the
\* first method, in the order 1, 2, 3, 4, whose result lies in (0, 24], and
\* no history request is issued for an instrument whose method 1 or method 2
\* result lies in (0, 24].
C5_FirstMethodInRange ==
  \A i \in DOMAIN ad["binance"].result :
    LET record == ad["binance"].result[i]
    IN record.exchange = "BINANCE" =>
         /\ record.fundingIntervalHours = firstInRange(entryOf(record))
         /\ (hoursInRange(method1(entryOf(record))) \/ hoursInRange(method2(entryOf(record))))
              => ~asked(entryOf(record))

\* The loop iterations the newer Binance adapter has completed.
iterationsDone ==
  IF ad["binance"].pc = "returned" THEN ad["binance"].i
  ELSE IF ad["binance"].pc \in {"loop", "hung"} THEN ad["binance"].i - 1
  ELSE 0

\* Every data-driven method is unavailable for the entry: an instant is
\* absent, a datetime text does not parse, and the history request throws
\* or gives fewer than two events.
noTimestamps(e) ==
  ~Truthy(e.data.fundingTimestamp) \/ ~Truthy(e.data.nextFundingTime)
noDatetimes(e) ==
  ~IsNum(DateParse(e.data.fundingDatetime)) \/ ~IsNum(DateParse(e.data.nextFundingDatetime))
noHistory(e) ==
  e.hist.kind = "throw" \/ (e.hist.kind = "ok" /\ Len(e.hist.events) < 2)
inferenceUnavailable(e) == noTimestamps(e) /\ noDatetimes(e) /\ noHistory(e)

\* C6: the inference never raises.  In the newer Binance adapter every
\* instrument the loop has been through and that carries a rate has its
\* record, the record carries the method-4 value when every data-driven
\* method is unavailable, and the adapter returns all the records it pushed.
C6_InferenceNeverRaises ==
  variant = "new" =>
    LET a == ad["binance"]
        symbols == binanceSymbols
    IN /\ \A k \in 1..iterationsDone :
            ~passedOver(symbols[k].data) =>
              \E i \in DOMAIN a.result :
                /\ a.result[i].fullSymbol = symbols[k].symbol
                /\ inferenceUnavailable(symbols[k]) =>
                     a.result[i].fundingIntervalHours = method4(symbols[k])
       /\ (a.pc = "returned" /\ a.i > 0) => Len(a.ret) = Len(a.result)

\* The adapter has returned the record of an instrument without instants,
\* with texts that do not parse and a history request that throws.
C6_Witness ==
  /\ variant = "new"
  /\ ad["binance"].pc = "returned"
  /\ \E i \in DOMAIN ad["binance"].ret :
       /\ ad["binance"].ret[i].fullSymbol = "ABCDEFG/USDT:USDT"
       /\ inferenceUnavailable(entryOf(ad["binance"].ret[i]))
       /\ ad["binance"].ret[i].fundingIntervalHours = N(2)

\* The success payloads the newer handler has sent.
newPayloads == {sent[k] : k \in {j \in DOMAIN sent : variant = "new" /\ isSuccess(sent[j])}}

\* An entry of the emitted table that compares two sources.
isComparison(e) == e.favorableExchange \in {"BINANCE", "MEXC", "EQUAL"}

\* The rate of one side of an entry, as the comparison reads it.
rateOf(side) == ParseFloatOrZero(side.fundingRate)

\* C7: favorableExchange names the source with the higher rate, and is EQUAL
\* exactly when the two rates are equal.
C7_FavorsHigherRate ==
  \A r \in newPayloads :
    \A j \in DOMAIN r.tableData :
      LET e == r.tableData[j]
      IN isComparison(e) =>
           /\ rateOf(e.binance) > rateOf(e.mexc) => e.favorableExchange = "BINANCE"
           /\ rateOf(e.mexc) > rateOf(e.binance) => e.favorableExchange = "MEXC"
           /\ e.favorableExchange = "EQUAL" <=> rateOf(e.binance) = rateOf(e.mexc)

\* C8: fundingRateDifference is the MEXC rate minus the Binance rate (a rate
\* that is not available counting as 0) and absoluteDifference its absolute
\* value, both with six decimals.
C8_DifferenceIsMexcMinusBinance ==
  \A r \in newPayloads :
    \A j \in DOMAIN r.tableData :
      LET e == r.tableData[j]
      IN isComparison(e) =>
           /\ e.fundingRateDifference = ToFixed6(rateOf(e.mexc) - rateOf(e.binance))
           /\ e.absoluteDifference = ToFixed6(Abs(rateOf(e.mexc) - rateOf(e.binance)))

\* Rates 0.01 on Binance and -0.02 on MEXC have been compared: -0.03.
C8_Witness ==
  \E r \in newPayloads :
    \E j \in DOMAIN r.tableData :
      /\ r.tableData[j].symbol = "BTC"
      /\ r.tableData[j].binance.fundingRate = S("0.010000")
      /\ r.tableData[j].mexc.fundingRate = S("-0.020000")
      /\ r.tableData[j].fundingRateDifference = "-0.030000"
      /\ r.tableData[j].absoluteDifference = "0.030000"

\* The symbols of a sequence of records or entries.
symbolsOf(records) == {records[i].symbol : i \in DOMAIN records}

\* The symbols of the comparison entries of a payload.
pairedSymbols(r) ==
  {r.tableData[j].symbol : j \in {i \in DOMAIN r.tableData : isComparison(r.tableData[i])}}

\* Every record of the payload carries a rate.
ratesPresent(r) ==
  \A i \in DOMAIN (r.rawData.binance \o r.rawData.mexc) :
    (r.rawData.binance \o r.rawData.mexc)[i].fundingRate # NULL

\* C9: when every record carries its rate, the symbols compared are exactly
\* those present in both sources, and each source's raw sequence holds all
\* the records its adapter returned.
C9_PairedIsIntersection ==
  \A r \in newPayloads :
    /\ ratesPresent(r) =>
         pairedSymbols(r) = symbolsOf(r.rawData.binance) \cap symbolsOf(r.rawData.mexc)
    /\ \A s \in Sources : race[s] = "value" => r.rawData[s] = ad[s].ret

\* A payload whose records all carry rates, with symbols in both sources,
\* only on Binance and only on MEXC.
C9_Witness ==
  \E r \in newPayloads :
    /\ ratesPresent(r)
    /\ pairedSymbols(r) = {"BTC", "ETH"}
    /\ "SOL" \in symbolsOf(r.rawData.binance) \ symbolsOf(r.rawData.mexc)
    /\ "DOGE" \in symbolsOf(r.rawData.mexc) \ symbolsOf(r.rawData.binance)

\* Entry e shows record x as available on one exchange only.
onlyOn(e, x, mark) ==
  /\ e.symbol = x.symbol
  /\ e.favorableExchange = mark
  /\ e.fundingRateDifference = "N/A" /\ e.absoluteDifference = "N/A"
  /\ e.differenceCategory = "N/A"
  /\ LET here == IF mark = "BINANCE_ONLY" THEN e.binance ELSE e.mexc
         there == IF mark = "BINANCE_ONLY" THEN e.mexc ELSE e.binance
     IN /\ here.fundingRate = x.fundingRate
        /\ here.fundingIntervalHours = x.fundingIntervalHours
        /\ there.fundingRate = S("N/A") /\ there.fundingIntervalHours = S("N/A")
        /\ there.nextFundingDatetime = S("N/A") /\ there.markPrice = S("N/A")

\* C10: when no symbol is compared, the emitted table is the first up to 10
\* records of Binance followed by the first up to 10 of MEXC, each shown as
\* available on that exchange only, and is empty only if both sources are;
\* otherwise the emitted table is the comparison table.
C10_FallbackTable ==
  \A r \in newPayloads :
    LET nb == Min(TopN, Len(r.rawData.binance))
        nm == Min(TopN, Len(r.rawData.mexc))
    IN IF r.summary.commonCoins = 0
       THEN /\ Len(r.tableData) = nb + nm
            /\ \A i \in 1..nb : onlyOn(r.tableData[i], r.rawData.binance[i], "BINANCE_ONLY")
            /\ \A i \in 1..nm : onlyOn(r.tableData[nb + i], r.rawData.mexc[i], "MEXC_ONLY")
            /\ (Len(r.rawData.binance) + Len(r.rawData.mexc) > 0) => Len(r.tableData) > 0
       ELSE /\ r.tableData = comparisonTable(r.rawData.binance, r.rawData.mexc)
            /\ Len(r.tableData) = r.summary.commonCoins
            /\ \A j \in DOMAIN r.tableData : isComparison(r.tableData[j])

\* No symbol is compared and each source returned more than 10 records.
C10_Witness ==
  \E r \in newPayloads :
    /\ r.summary.commonCoins = 0
    /\ Len(r.rawData.binance) > TopN /\ Len(r.rawData.mexc) > TopN
    /\ Len(r.tableData) = 2 * TopN

\* The signed differential of a comparison entry, as the sort reads it.
differentialOf(e) == ParseFloatOrZero(S(e.fundingRateDifference))

\* C11: the comparison table of every response is in ascending order of the
\* signed differential: each entry's fundingRateDifference is at most that of
\* the entry after it.
C11_TableAscending ==
  \A r \in newPayloads :
    \A j \in 1..(Len(r.tableData) - 1) :
      (isComparison(r.tableData[j]) /\ isComparison(r.tableData[j + 1])) =>
        differentialOf(r.tableData[j]) <= differentialOf(r.tableData[j + 1])

\* A table of three entries whose order is not the order in which the
\* symbols were paired: XRP (-0.06) before BTC and ETH (0.03 each).
C11_Witness ==
  \E r \in newPayloads :
    /\ Len(r.tableData) = 3
    /\ r.tableData[1].symbol = "XRP" /\ r.tableData[1].fundingRateDifference = "-0.060000"
    /\ r.tableData[2].symbol = "BTC" /\ r.tableData[2].fundingRateDifference = "0.030000"
    /\ r.tableData[3].symbol = "ETH" /\ r.tableData[3].fundingRateDifference = "0.030000"

\* The records are in the order of their symbols.
sortedBySymbol(records) ==
  \A i \in 1..(Len(records) - 1) :
    localeCompare(records[i].symbol, records[i + 1].symbol) <= 0

\* C12: what an adapter hands to the handler is sorted by symbol, whatever
\* the order in which the requests of a batch completed.
C12_AdapterOutputSorted ==
  \A s \in Sources : ad[s].pc = "returned" => sortedBySymbol(ad[s].ret)

\* No two of the records carry the same symbol.
symbolsUnique(records) ==
  \A i, j \in DOMAIN records : records[i].symbol = records[j].symbol => i = j

\* C13: within the records one adapter returns, and within each source's raw
\* data of a response, the symbol is unique.
C13_SymbolUnique ==
  /\ \A s \in Sources : ad[s].pc = "returned" => symbolsUnique(ad[s].ret)
  /\ \A r \in newPayloads :
       symbolsUnique(r.rawData.binance) /\ symbolsUnique(r.rawData.mexc)

\* The source gave no rate: the field is absent or null.
noRate(rate) == rate \in {NULL, UNDEFINED}

\* The newer MEXC adapter has returned the records of the direct path.
directPathReturned ==
  /\ variant = "new" /\ ad["mexc"].pc = "returned"
  /\ ad["mexc"].i = 0 /\ Len(ad["mexc"].ret) > 0

\* C14: a record's fundingRate is the unavailable marker (null) exactly when
\* the source gave no rate for the instrument: a missing rate never shows as
\* zero and a rate of exactly 0 never shows as unavailable.
C14_NullIffNoRate ==
  /\ \A i \in DOMAIN ad["binance"].result :
       LET record == ad["binance"].result[i]
       IN (record.fundingRate = NULL) <=> noRate(entryOf(record).data.fundingRate)
  /\ directPathReturned =>
       \A k \in DOMAIN exch.mexcApi.data :
         LET item == exch.mexcApi.data[k]
         IN mexcItemListed(item) =>
              \E i \in DOMAIN ad["mexc"].ret :
                /\ ad["mexc"].ret[i].symbol = mexcBaseSymbol(item.symbol.v)
                /\ (ad["mexc"].ret[i].fundingRate = NULL) <=> noRate(item.fundingRate)

\* The snapshot entry can be processed: it is an object that carries a rate.
entrySound(e) == Truthy(e.data) /\ e.data.fundingRate # UNDEFINED

\* The Binance adapter has returned after it had received the snapshot and
\* begun on the instruments.
binanceWentThrough ==
  /\ ad["binance"].pc = "returned"
  /\ (ad["binance"].i > 0 \/ ad["binance"].failed \/ Len(ad["binance"].result) > 0)

\* The MEXC adapter has returned after it had begun on the tickers.
mexcWentThrough ==
  /\ ad["mexc"].pc = "returned"
  /\ (ad["mexc"].i > 0 \/ Len(ad["mexc"].result) > 0)

\* The markets whose ticker the MEXC adapter requests.
requestedMarkets ==
  IF variant = "new" THEN tickerSymbols ELSE Slice0(mexcSwapMarkets, OldMexcLimit)

\* C15: a failure on one instrument omits that instrument only.  Once the
\* adapter has gone through its instruments, every instrument whose snapshot
\* entry is sound (whatever its history request did) and every market whose
\* ticker arrived has its record in what the adapter returns.
C15_FailureIsolated ==
  /\ binanceWentThrough =>
       LET symbols == binanceSymbols
       IN \A k \in DOMAIN symbols :
            entrySound(symbols[k]) =>
              \E i \in DOMAIN ad["binance"].ret :
                ad["binance"].ret[i].fullSymbol = symbols[k].symbol
  /\ mexcWentThrough =>
       LET markets == requestedMarkets
       IN \A k \in DOMAIN markets :
            markets[k].ticker.kind = "ok" =>
              \E i \in DOMAIN ad["mexc"].ret :
                ad["mexc"].ret[i].fullSymbol = markets[k].symbol

merged(s) == IF s = "binance" THEN binanceRates ELSE mexcRates

\* The handler has taken the result of source s's fetch.
taken(s) ==
  /\ reqMethod = "GET"
  /\ hpc = "done" \/ (s = "binance" /\ hpc = "awaitMexc")

\* C17: what the handler merges for a source is the complete sequence its
\* adapter returned, or the empty sequence.  After a timeout it is empty and
\* stays empty whatever the abandoned adapter returns later; a value accepted
\* before the timer fires stays as it was; and the response is built from
\* the merged sets alone.
C17_MergedIsWholeOrEmpty ==
  /\ \A s \in Sources :
       taken(s) =>
         /\ merged(s) \in {ad[s].ret, <<>>}
         /\ variant = "new" =>
              /\ race[s] = "timeout" => merged(s) = <<>>
              /\ race[s] = "value" => (ad[s].pc = "returned" /\ merged(s) = ad[s].ret)
         /\ variant = "old" => (ad[s].pc = "returned" /\ merged(s) = ad[s].ret)
  /\ \A r \in newPayloads : r = newResponse(binanceRates, mexcRates)

\* Binance timed out and its abandoned adapter returned records afterwards;
\* MEXC's records were accepted and its timer fired afterwards.  The response
\* holds no Binance record and all of MEXC's.
C17_Witness ==
  /\ race["binance"] = "timeout"
  /\ ad["binance"].pc = "returned" /\ Len(ad["binance"].ret) > 0
  /\ race["mexc"] = "value" /\ timer["mexc"] = "fired"
  /\ Len(ad["mexc"].ret) > 0
  /\ \E r \in newPayloads :
       r.rawData.binance = <<>> /\ r.rawData.mexc = ad["mexc"].ret

\* C18: in one run of an adapter at most 50 funding-history requests are
\* issued, however many instruments lack usable instants.
C18_HistoryRequestsCapped ==
  Len(ad["binance"].history) <= HistoryCap

\* No data-driven method gives the entry an interval in (0, 24]: the
\* instants and the datetime texts are absent or give a value out of range,
\* and the history request throws or gives nothing in range.
noUsableData(e) ==
  /\ ~hoursInRange(method1(e))
  /\ ~hoursInRange(method2(e))
  /\ e.hist.kind = "throw" \/ (e.hist.kind = "ok" /\ ~hoursInRange(method3(e)))

\* The base name is on neither list and matches no pattern.
unlisted(baseSymbol) ==
  /\ baseSymbol \notin likely1HCoins \cup major8HCoins
  /\ ~isMemeOrVolatile(baseSymbol)
  /\ ~is1000Coin(baseSymbol)

\* The records the newer Binance adapter has pushed for instruments without
\* usable data, as indices of its result.
classified ==
  {i \in DOMAIN ad["binance"].result :
     variant = "new" /\ noUsableData(entryOf(ad["binance"].result[i]))}

\* C19: for an instrument without usable instants, texts or history the
\* interval emitted is one of 1, 2, 4, 8 and depends on the instrument's
\* name alone, not on its place in the list nor on the other instruments;
\* a name on no list and matching no pattern gets 2 when its base name has
\* 7 characters or more and 4 otherwise.
C19_ClassificationByNameAlone ==
  \A i \in classified :
    LET record == ad["binance"].result[i]
    IN /\ record.fundingIntervalHours \in {N(1), N(2), N(4), N(8)}
       /\ record.fundingIntervalHours =
            N(smartFallback(record.fullSymbol, binanceBaseSymbol(record.fullSymbol)))
       /\ unlisted(record.symbol) =>
            record.fundingIntervalHours = (IF Len(record.symbol) >= 7 THEN N(2) ELSE N(4))

\* The list given in the opposite order has been gone through: XRP, last in
\* it, got 8, ABCDEFG 2, XYZABC 4 and OP, first in it, 4.
C19_Witness ==
  /\ variant = "new"
  /\ exch.snapshot = Reversed(SnapshotClasses)
  /\ ad["binance"].pc = "returned"
  /\ classified = 1..Len(SnapshotClasses)
  /\ \E i, j, k, l \in DOMAIN ad["binance"].result :
       LET r == ad["binance"].result
       IN /\ r[i].symbol = "XRP" /\ r[i].fundingIntervalHours = N(8) /\ i = Len(r)
          /\ r[j].symbol = "ABCDEFG" /\ r[j].fundingIntervalHours = N(2)
          /\ r[k].symbol = "XYZABC" /\ r[k].fundingIntervalHours = N(4)
          /\ r[l].symbol = "OP" /\ r[l].fundingIntervalHours = N(4) /\ l = 1

\* C20: when every data-driven method fails, a symbol on the major list or
\* with the 1000 prefix is classified as 8 hours, and a symbol on the
\* high-frequency list or matching a meme or volatile pattern as 1 hour.
C20_ListsDecideClass ==
  \A i \in classified :
    LET record == ad["binance"].result[i]
    IN /\ (record.symbol \in major8HCoins \/ is1000Coin(record.symbol)) =>
            record.fundingIntervalHours = N(8)
       /\ (record.symbol \in likely1HCoins \/ isMemeOrVolatile(record.symbol)) =>
            record.fundingIntervalHours = N(1)

\* The argument pairs the interval inference hands to the Interval Calculator
\* for one snapshot entry: the two instants when both are truthy, the two
\* parsed datetime texts when both texts are truthy, the first two history
\* timestamps when the history has at least two events.
calculatorCalls(e) ==
  (IF e.data.t = "obj" /\ Truthy(e.data.fundingTimestamp) /\ Truthy(e.data.nextFundingTime)
   THEN {<<e.data.fundingTimestamp, e.data.nextFundingTime>>} ELSE {})
  \cup (IF e.data.t = "obj" /\ Truthy(e.data.fundingDatetime)
            /\ Truthy(e.data.nextFundingDatetime)
         THEN {<<DateParse(e.data.fundingDatetime), DateParse(e.data.nextFundingDatetime)>>}
         ELSE {})
  \cup (IF e.hist.kind = "ok" /\ Len(e.hist.events) >= 2
         THEN {<<e.hist.events[1].timestamp, e.hist.events[2].timestamp>>} ELSE {})

\* h is diffMs / 1 hour rounded to the nearest integer, a tie going up.
isRoundedHours(h, diffMs) ==
  /\ IsNum(h)
  /\ 2 * h.v * MsPerHour - MsPerHour <= 2 * diffMs
  /\ 2 * diffMs < 2 * h.v * MsPerHour + MsPerHour

\* C21: for every record the Binance adapter has pushed and every pair of
\* arguments its inference hands to the Interval Calculator, the calculator
\* returns round((next - current) / 1 hour) when both instants are present
\* (numbers) and unavailable exactly when one of them is missing; two instants
\* 28 800 000 ms apart give 8.
C21_CalculatorContract ==
  /\ calculateFundingInterval(N(T0), N(T0 + 28800000)) = N(8)
  /\ LET symbols == binanceSymbols
         pushed == {ad["binance"].result[k].fullSymbol : k \in 1..Len(ad["binance"].result)}
     IN \A i \in 1..Len(symbols) :
          symbols[i].symbol \in pushed =>
            \A call \in calculatorCalls(symbols[i]) :
              LET h == calculateFundingInterval(call[1], call[2])
              IN IF IsNum(call[1]) /\ IsNum(call[2])
                 THEN isRoundedHours(h, call[2].v - call[1].v)
                 ELSE h = NULL


\* The MEXC adapter has returned from a run in which the funding-rate
\* capability was absent: the older adapter never asks for it; in the newer
\* one the request threw, or was answered without success or without data.
mexcCapabilityAbsent ==
  /\ ad["mexc"].pc = "returned"
  /\ ad["mexc"].fault # "loadMarkets"
  /\ \/ variant = "old"
     \/ ad["mexc"].fault = "fetchApi"
     \/ ad["mexc"].fault = "none" /\ ~(exch.mexcApi.success /\ exch.mexcApi.hasData)

\* The adapter's result holds the ticker record of a market: no rate, the
\* default interval, the ticker's last price.
hasTickerRecord(ret, market) ==
  \E k \in 1..Len(ret) :
    /\ ret[k].fullSymbol = market.symbol
    /\ ret[k].fundingRate = NULL
    /\ ret[k].fundingIntervalHours = N(8)
    /\ ret[k].markPrice = market.ticker.last

\* C22: whenever the MEXC adapter returns from a run without the funding-rate
\* capability, its result holds, for every listed USDT perpetual market whose
\* ticker request succeeds, a record with fundingRate unavailable, the
\* interval 8 and the ticker's price.
C22_TickerRecordsWithoutFunding ==
  mexcCapabilityAbsent =>
    \A j \in 1..Len(exch.markets) :
      (isMexcSwap(exch.markets[j]) /\ exch.markets[j].ticker.kind = "ok") =>
        hasTickerRecord(ad["mexc"].ret, exch.markets[j])

\* The success payloads the older handler has sent.
oldPayloads == {sent[k] : k \in {j \in DOMAIN sent : variant = "old" /\ isSuccess(sent[j])}}

\* C23: in every success response of the older handler, the records of data
\* that carry a rate come in descending order of rate, and when some record
\* carries a rate, summary.highestFundingRate is a record carrying the
\* maximum rate and summary.lowestFundingRate one carrying the minimum rate.
C23_SortedByRateDescending ==
  \A r \in oldPayloads :
    LET rates == [k \in 1..Len(r.data) |-> ParseFloat(r.data[k].fundingRate)]
        rated == {k \in 1..Len(r.data) : IsNum(rates[k])}
    IN /\ \A j, k \in rated : j < k => rates[j].v >= rates[k].v
       /\ rated # {} =>
            /\ r.summary.highestFundingRate # NULL
            /\ r.summary.lowestFundingRate # NULL
            /\ LET highest == ParseFloat(r.summary.highestFundingRate.item.fundingRate)
                   lowest == ParseFloat(r.summary.lowestFundingRate.item.fundingRate)
               IN /\ IsNum(highest) /\ \A k \in rated : highest.v >= rates[k].v
                  /\ IsNum(lowest) /\ \A k \in rated : lowest.v <= rates[k].v

\* The size of the batches of the older adapter of source s, and the batch
\* member k belongs to.
batchSizeOf(s) == IF s = "binance" THEN OldBatchSize ELSE OldMexcBatchSize
batchOf(s, k) == (k - 1) \div batchSizeOf(s)

\* C24: in the older, batched adapters, after every step at most batchSize
\* per-instrument requests of one adapter are in flight, the requests in
\* flight belong to one batch, and a step that starts requests is taken only
\* when no earlier request of the adapter is still in flight.
C24_BatchesJoined ==
  [][\A s \in {"binance", "mexc"} :
       variant = "old" =>
         /\ Cardinality(ad'[s].pending) <= batchSizeOf(s)
         /\ \A j, k \in ad'[s].pending : batchOf(s, j) = batchOf(s, k)
         /\ (ad'[s].pending \ ad[s].pending # {}) => ad[s].pending = {}]_vars

\* The second batch of the older MEXC adapter is in flight after a first
\* batch in which one ticker request failed.
C24_Witness ==
  /\ variant = "old"
  /\ ad["mexc"].pc = "batch"
  /\ ad["mexc"].i = OldMexcBatchSize
  /\ ad["mexc"].pending # {}
  /\ Len(ad["mexc"].result) >= OldMexcBatchSize - 1

\* The histogram of a success payload and the two record counts it reports.
histogramOf(r) == IF variant = "new" THEN r.summary.fundingIntervals ELSE r.fundingIntervals
countsOf(r) == IF variant = "new" THEN r.summary.exchanges ELSE r.exchanges

\* The sum of the buckets keys of the histogram stats.
RECURSIVE bucketSum(_, _)
bucketSum(stats, keys) ==
  IF keys = {} THEN 0
  ELSE LET k == CHOOSE x \in keys : TRUE
       IN stats[k] + bucketSum(stats, keys \ {k})

\* C25: in every success response the histogram has exactly one bucket for
\* each hour value h some record carries, keyed by h followed by H, that
\* bucket equals the number of records of the two per-source sequences with
\* fundingIntervalHours = h, and the buckets sum to the Binance record count
\* plus the MEXC record count.
C25_HistogramCountsEveryRecord ==
  \A n \in DOMAIN sent :
    isSuccess(sent[n]) =>
      LET r == sent[n]
          records == recordsOf(r)
          stats == histogramOf(r)
          hours == {records[i].fundingIntervalHours : i \in 1..Len(records)}
      IN /\ DOMAIN stats = {NumberText(h) \o "H" : h \in hours}
         /\ \A h \in hours :
              stats[NumberText(h) \o "H"]
                = Cardinality({i \in 1..Len(records) : records[i].fundingIntervalHours = h})
         /\ bucketSum(stats, DOMAIN stats) = countsOf(r).binance + countsOf(r).mexc
         /\ countsOf(r).binance + countsOf(r).mexc = Len(records)

\* A response whose sources share no symbol and whose records fall into
\* several buckets, one of them holding several records.
C25_Witness ==
  \E r \in newPayloads :
    /\ Len(r.rawData.binance) > 1 /\ Len(r.rawData.mexc) > 1
    /\ symbolsOf(r.rawData.binance) \cap symbolsOf(r.rawData.mexc) = {}
    /\ Cardinality(DOMAIN r.summary.fundingIntervals) > 2
    /\ "8H" \in DOMAIN r.summary.fundingIntervals
    /\ r.summary.fundingIntervals["8H"] > 1

\* C26: in every success response of the newer handler the three category
\* counters sum to commonCoins, which is the number of comparison entries of
\* the table; favorsBinance + favorsMexc falls short of commonCoins by exactly
\* the number of EQUAL entries; commonCoins <= totalUniqueCoins; and
\* totalUniqueCoins is the size of the union of the two sources' symbol sets,
\* at most the sum of the two record counts.
C26_SummaryCountersConsistent ==
  \A r \in newPayloads :
    LET paired == {j \in DOMAIN r.tableData : isComparison(r.tableData[j])}
        equal == {j \in paired : r.tableData[j].favorableExchange = "EQUAL"}
        stats == r.summary.differenceStats
        common == r.summary.commonCoins
        total == r.summary.totalUniqueCoins
    IN /\ stats.highDifferences + stats.mediumDifferences + stats.lowDifferences = common
       /\ common = Cardinality(paired)
       /\ stats.favorsBinance + stats.favorsMexc <= common
       /\ common - (stats.favorsBinance + stats.favorsMexc) = Cardinality(equal)
       /\ common <= total
       /\ total = Cardinality(symbolsOf(r.rawData.binance) \cup symbolsOf(r.rawData.mexc))
       /\ total <= r.summary.exchanges.binance + r.summary.exchanges.mexc
       /\ r.summary.exchanges.binance = Len(r.rawData.binance)
       /\ r.summary.exchanges.mexc = Len(r.rawData.mexc)

\* A response with several comparison entries, one of them EQUAL, one for
\* each source, and a symbol that only one source lists.
C26_Witness ==
  \E r \in newPayloads :
    /\ r.summary.commonCoins > 2
    /\ r.summary.commonCoins < r.summary.totalUniqueCoins
    /\ r.summary.differenceStats.favorsBinance > 0
    /\ r.summary.differenceStats.favorsMexc > 0
    /\ r.summary.differenceStats.favorsBinance + r.summary.differenceStats.favorsMexc
         < r.summary.commonCoins

\* C27: every record the direct path of the MEXC adapter returns with a next
\* settlement time gives its own fundingIntervalHours back when the Interval
\* Calculator is applied to its fundingTimestamp and nextFundingTime, and a
\* record without one has fundingTimestamp and nextFundingTime unavailable.
C27_DirectRecordSelfConsistent ==
  directPathReturned =>
    \A k \in 1..Len(ad["mexc"].ret) :
      LET record == ad["mexc"].ret[k]
      IN IF record.nextFundingTime # NULL
         THEN calculateFundingInterval(record.fundingTimestamp, record.nextFundingTime)
                = record.fundingIntervalHours
         ELSE record.fundingTimestamp = NULL

=============================================================================
